---- MODULE Spec2Model ----
(***************************************************************************)
(* A model of the OneHome portfolio generator: the input normalizers       *)
(* (server.js parseMakeComData, the api handler's inline parsing,          *)
(* ensureArray), the evidence aggregator and flat view, the learning-area  *)
(* overviews, the outcome filter, the two request handlers, the grouped    *)
(* evidence listing with its sampler and gap lists, the resource           *)
(* extractor, sections 3 to 6 of the document, the enhancement stage, the  *)
(* attachments and the area labels of an evidence entry, the content       *)
(* sampler on its own and the learning goals of section 5.1.               *)
(*                                                                         *)
(* JavaScript values are tagged records [t |-> tag, v |-> payload]; text   *)
(* is a sequence of one-character strings, so that JSON.parse and          *)
(* JSON.stringify are computed character by character.                     *)
(***************************************************************************)
EXTENDS Integers, Sequences, FiniteSets, TLC

(***************************************************************************)
(* State.  The model has one group of variables per part of the program;   *)
(* each specification below exercises one part and leaves the variables of *)
(* the others at their idle values.                                        *)
(***************************************************************************)
VARIABLES
  nShape,   \* how the normalizer input was built (history)
  nData,    \* the raw field value handed to the normalizers
  nServer,  \* result of parseMakeComData(nData), pending before the call
  nApi,     \* result of the api handler's inline parsing of nData
  nEnsure,  \* result of ensureArray(nData)
  eEntries, \* portfolioData.evidenceEntries after normalization
  eByArea,  \* portfolioData.evidenceByArea, own properties in insertion order
  eFlat,    \* uniqueEvidence of generateEvidenceSectionsFlat, as rendered
  ePc,      \* "start", "input" (entries received), "grouped", "flat" (view rendered)
  oIn,      \* arguments of generateLearningAreaOverviews, as found in portfolioData
  oOut,     \* what the call produced: the sections, or the error it threw
  oPc,      \* "start", "input", "done"
  rReq,     \* the request a handler is serving
  rPc,      \* the handler's position
  rIdx,     \* index of the evidence entry the grouping loop is at
  rLog,     \* the pipeline stages that have executed for this request
  rResp,    \* the response sent, "none" before
  moIn,     \* evidence.matchedOutcomes of one flat-view entry: [shape, items]
  moOut,    \* the outcome strings rendered under the entry, or the error thrown
  moPc,     \* "start", "input", "done"
  sIn,      \* arguments of generateEvidenceSections: [evidenceByArea, allOutcomes]
  sOut,     \* what the grouped evidence listing produced
  sPc,      \* "start", "input", "done"
  xIn,      \* evidenceByArea as read by extractResourcesFromEvidence
  xOut,     \* the resource names it returned
  xPc,      \* "start", "input", "done"
  cIn,      \* the fields of portfolioData read by sections 3 to 6 of the document
  cOut,     \* the document composed: its parts, or the error thrown
  cPc,      \* "start", "input", "done"
  aIn,      \* entry.Attachments of the evidence entry being grouped: [array, list]
  aIdx,     \* position of processAttachments' loop in limitedAttachments
  aAnswers, \* how the image host answered the fetch of each attachment, in order
  aImages,  \* processedImages so far, each named by its position in the list
  aOut,     \* the entry pushed to evidenceByArea, or the error the handler threw
  aPc,      \* "start", "input", "loop", "report", "done"
  hIn,      \* the request as the enhancement stage finds it
  hCalls,   \* the enhancement calls still to make, in the handler's order
  hFlight,  \* TRUE while a callOpenAI fetch is awaiting its answer
  hLog,     \* the calls made: [target, failed, text] in the order they returned
  hData,    \* aiProgressSummaries, enhancedProgressAssessment and the overview
  hResp,    \* the response sent: its status and the texts of the document
  hPc,      \* "start", "input", "calls", "compose", "done"
  lIn,      \* entry['Learning Areas'] of one evidence entry: [form, items]
  lOut,     \* the keys of evidenceByArea after the entry was grouped, the
            \* keys that get a section in the learning-area overviews, and
            \* the evidence count of each section
  lPc,      \* "start", "input", "done"
  pIn,      \* a call of selectDiverseEvidence: [evidenceByArea, maxTotal]
  pOut,     \* the object the call returned
  pPc,      \* "start", "input", "done"
  gIn,      \* parsedFuturePlans.goals of a request, its characters
  gOut,     \* the paragraphs of section 5.1
  gPc       \* "start", "input", "done"

normVars == <<nShape, nData, nServer, nApi, nEnsure>>
evVars == <<eEntries, eByArea, eFlat, ePc>>
ovVars == <<oIn, oOut, oPc>>
rqVars == <<rReq, rPc, rIdx, rLog, rResp>>
moVars == <<moIn, moOut, moPc>>
seVars == <<sIn, sOut, sPc>>
reVars == <<xIn, xOut, xPc>>
coVars == <<cIn, cOut, cPc>>
atVars == <<aIn, aIdx, aAnswers, aImages, aOut, aPc>>
enVars == <<hIn, hCalls, hFlight, hLog, hData, hResp, hPc>>
laVars == <<lIn, lOut, lPc>>
saVars == <<pIn, pOut, pPc>>
goVars == <<gIn, gOut, gPc>>
vars == <<normVars, evVars, ovVars, rqVars, moVars, seVars, reVars, coVars, atVars, enVars, laVars, saVars, goVars>>

NormIdle ==
  /\ nShape = [kind |-> "scalar", n |-> 0, k |-> 0, c |-> 1]
  /\ nData = [t |-> "null", v |-> <<>>]
  /\ nServer = [t |-> "pending", v |-> <<>>]
  /\ nApi = [t |-> "pending", v |-> <<>>]
  /\ nEnsure = [t |-> "pending", v |-> <<>>]

EvIdle ==
  /\ eEntries = <<>>
  /\ eByArea = <<>>
  /\ eFlat = <<>>
  /\ ePc = "idle"

OvIdle ==
  /\ oIn = <<>>
  /\ oOut = <<>>
  /\ oPc = "idle"

RqIdle ==
  /\ rReq = <<>>
  /\ rPc = "idle"
  /\ rIdx = 0
  /\ rLog = {}
  /\ rResp = "none"

MoIdle ==
  /\ moIn = <<>>
  /\ moOut = <<>>
  /\ moPc = "idle"

SeIdle ==
  /\ sIn = <<>>
  /\ sOut = <<>>
  /\ sPc = "idle"

ReIdle ==
  /\ xIn = <<>>
  /\ xOut = <<>>
  /\ xPc = "idle"

CoIdle ==
  /\ cIn = <<>>
  /\ cOut = <<>>
  /\ cPc = "idle"

AtIdle ==
  /\ aIn = <<>>
  /\ aIdx = 0
  /\ aAnswers = <<>>
  /\ aImages = <<>>
  /\ aOut = <<>>
  /\ aPc = "idle"

EnIdle ==
  /\ hIn = <<>>
  /\ hCalls = <<>>
  /\ hFlight = FALSE
  /\ hLog = <<>>
  /\ hData = <<>>
  /\ hResp = <<>>
  /\ hPc = "idle"

LaIdle ==
  /\ lIn = <<>>
  /\ lOut = <<>>
  /\ lPc = "idle"

SaIdle ==
  /\ pIn = <<>>
  /\ pOut = <<>>
  /\ pPc = "idle"

GoIdle ==
  /\ gIn = <<>>
  /\ gOut = <<>>
  /\ gPc = "idle"

\* the variables a part leaves alone, and their idle values
normRest == <<evVars, ovVars, rqVars, moVars, seVars, reVars, coVars, atVars, enVars, laVars, saVars, goVars>>
evRest == <<normVars, ovVars, rqVars, moVars, seVars, reVars, coVars, atVars, enVars, laVars, saVars, goVars>>
ovRest == <<normVars, evVars, rqVars, moVars, seVars, reVars, coVars, atVars, enVars, laVars, saVars, goVars>>
rqRest == <<normVars, evVars, ovVars, moVars, seVars, reVars, coVars, atVars, enVars, laVars, saVars, goVars>>
moRest == <<normVars, evVars, ovVars, rqVars, seVars, reVars, coVars, atVars, enVars, laVars, saVars, goVars>>
seRest == <<normVars, evVars, ovVars, rqVars, moVars, reVars, coVars, atVars, enVars, laVars, saVars, goVars>>
reRest == <<normVars, evVars, ovVars, rqVars, moVars, seVars, coVars, atVars, enVars, laVars, saVars, goVars>>
coRest == <<normVars, evVars, ovVars, rqVars, moVars, seVars, reVars, atVars, enVars, laVars, saVars, goVars>>
atRest == <<normVars, evVars, ovVars, rqVars, moVars, seVars, reVars, coVars, enVars, laVars, saVars, goVars>>
enRest == <<normVars, evVars, ovVars, rqVars, moVars, seVars, reVars, coVars, atVars, laVars, saVars, goVars>>
laRest == <<normVars, evVars, ovVars, rqVars, moVars, seVars, reVars, coVars, atVars, enVars, saVars, goVars>>
saRest == <<normVars, evVars, ovVars, rqVars, moVars, seVars, reVars, coVars, atVars, enVars, laVars, goVars>>
goRest == <<normVars, evVars, ovVars, rqVars, moVars, seVars, reVars, coVars, atVars, enVars, laVars, saVars>>
NormRestIdle == EvIdle /\ OvIdle /\ RqIdle /\ MoIdle /\ SeIdle /\ ReIdle /\ CoIdle /\ AtIdle /\ EnIdle /\ LaIdle /\ SaIdle /\ GoIdle
EvRestIdle == NormIdle /\ OvIdle /\ RqIdle /\ MoIdle /\ SeIdle /\ ReIdle /\ CoIdle /\ AtIdle /\ EnIdle /\ LaIdle /\ SaIdle /\ GoIdle
OvRestIdle == NormIdle /\ EvIdle /\ RqIdle /\ MoIdle /\ SeIdle /\ ReIdle /\ CoIdle /\ AtIdle /\ EnIdle /\ LaIdle /\ SaIdle /\ GoIdle
RqRestIdle == NormIdle /\ EvIdle /\ OvIdle /\ MoIdle /\ SeIdle /\ ReIdle /\ CoIdle /\ AtIdle /\ EnIdle /\ LaIdle /\ SaIdle /\ GoIdle
MoRestIdle == NormIdle /\ EvIdle /\ OvIdle /\ RqIdle /\ SeIdle /\ ReIdle /\ CoIdle /\ AtIdle /\ EnIdle /\ LaIdle /\ SaIdle /\ GoIdle
SeRestIdle == NormIdle /\ EvIdle /\ OvIdle /\ RqIdle /\ MoIdle /\ ReIdle /\ CoIdle /\ AtIdle /\ EnIdle /\ LaIdle /\ SaIdle /\ GoIdle
ReRestIdle == NormIdle /\ EvIdle /\ OvIdle /\ RqIdle /\ MoIdle /\ SeIdle /\ CoIdle /\ AtIdle /\ EnIdle /\ LaIdle /\ SaIdle /\ GoIdle
CoRestIdle == NormIdle /\ EvIdle /\ OvIdle /\ RqIdle /\ MoIdle /\ SeIdle /\ ReIdle /\ AtIdle /\ EnIdle /\ LaIdle /\ SaIdle /\ GoIdle
AtRestIdle == NormIdle /\ EvIdle /\ OvIdle /\ RqIdle /\ MoIdle /\ SeIdle /\ ReIdle /\ CoIdle /\ EnIdle /\ LaIdle /\ SaIdle /\ GoIdle
EnRestIdle == NormIdle /\ EvIdle /\ OvIdle /\ RqIdle /\ MoIdle /\ SeIdle /\ ReIdle /\ CoIdle /\ AtIdle /\ LaIdle /\ SaIdle /\ GoIdle
LaRestIdle == NormIdle /\ EvIdle /\ OvIdle /\ RqIdle /\ MoIdle /\ SeIdle /\ ReIdle /\ CoIdle /\ AtIdle /\ EnIdle /\ SaIdle /\ GoIdle
SaRestIdle == NormIdle /\ EvIdle /\ OvIdle /\ RqIdle /\ MoIdle /\ SeIdle /\ ReIdle /\ CoIdle /\ AtIdle /\ EnIdle /\ LaIdle /\ GoIdle
GoRestIdle == NormIdle /\ EvIdle /\ OvIdle /\ RqIdle /\ MoIdle /\ SeIdle /\ ReIdle /\ CoIdle /\ AtIdle /\ EnIdle /\ LaIdle /\ SaIdle

(***************************************************************************)
(* JavaScript values                                                       *)
(***************************************************************************)
JUndef == [t |-> "undef", v |-> <<>>]
JNull == [t |-> "null", v |-> <<>>]
JTrue == [t |-> "true", v |-> <<>>]
JFalse == [t |-> "false", v |-> <<>>]
JNum(lexeme) == [t |-> "num", v |-> lexeme]
JStr(chars) == [t |-> "str", v |-> chars]
JArr(items) == [t |-> "arr", v |-> items]
JObj(members) == [t |-> "obj", v |-> members]

IsArray(x) == x.t = "arr"
IsString(x) == x.t = "str"
\* typeof x === 'object' (null included, as in JavaScript)
TypeofObject(x) == x.t \in {"arr", "obj", "null"}
\* ToBoolean(x); a number is falsy when its lexeme denotes zero
Truthy(x) ==
  CASE x.t \in {"undef", "null", "false"} -> FALSE
    [] x.t = "str" -> Len(x.v) > 0
    [] x.t = "num" -> \E i \in 1..Len(x.v) : x.v[i] \in {"1","2","3","4","5","6","7","8","9"}
    [] OTHER -> TRUE

\* Structural equality (===  on the JSON image of two values), tags first so
\* that payloads of different types are never compared
RECURSIVE JEq(_, _)
JEq(a, b) ==
  /\ a.t = b.t
  /\ Len(a.v) = Len(b.v)
  /\ CASE a.t = "arr" -> \A i \in 1..Len(a.v) : JEq(a.v[i], b.v[i])
       [] a.t = "obj" -> \A i \in 1..Len(a.v) : a.v[i].k = b.v[i].k /\ JEq(a.v[i].x, b.v[i].x)
       [] OTHER -> a.v = b.v

Digits == {"0","1","2","3","4","5","6","7","8","9"}
DigitVal(c) ==
  CASE c = "0" -> 0 [] c = "1" -> 1 [] c = "2" -> 2 [] c = "3" -> 3 [] c = "4" -> 4
    [] c = "5" -> 5 [] c = "6" -> 6 [] c = "7" -> 7 [] c = "8" -> 8 [] OTHER -> 9

\* A property key that is an array index ("0", "7", "12": no leading zero)
IsIndexKey(k) ==
  /\ Len(k) >= 1
  /\ \A i \in 1..Len(k) : k[i] \in Digits
  /\ (Len(k) > 1 => k[1] # "0")

RECURSIVE KeyNum(_)
KeyNum(k) == IF Len(k) = 0 THEN 0 ELSE KeyNum(SubSeq(k, 1, Len(k) - 1)) * 10 + DigitVal(k[Len(k)])

HasKey(members, k) == \E i \in 1..Len(members) : members[i].k = k

\* obj[k]: the property's value, undefined when absent
GetProp(x, k) ==
  IF x.t = "obj" /\ HasKey(x.v, k)
  THEN x.v[CHOOSE i \in 1..Len(x.v) : x.v[i].k = k].x
  ELSE JUndef

\* Property definition in own-property order: an existing key keeps its place,
\* index keys come first in ascending order, other keys in insertion order.
ObjSet(members, k, x) ==
  IF HasKey(members, k)
  THEN [i \in 1..Len(members) |-> IF members[i].k = k THEN [k |-> k, x |-> x] ELSE members[i]]
  ELSE IF IsIndexKey(k)
       THEN LET before == SelectSeq(members, LAMBDA m : IsIndexKey(m.k) /\ KeyNum(m.k) < KeyNum(k))
                after == SelectSeq(members, LAMBDA m : ~(IsIndexKey(m.k) /\ KeyNum(m.k) < KeyNum(k)))
            IN before \o <<[k |-> k, x |-> x]>> \o after
       ELSE Append(members, [k |-> k, x |-> x])

\* Object.values(x)
ObjectValues(x) ==
  CASE x.t = "obj" -> [i \in 1..Len(x.v) |-> x.v[i].x]
    [] x.t = "arr" -> x.v
    [] x.t = "str" -> [i \in 1..Len(x.v) |-> JStr(<<x.v[i]>>)]
    [] OTHER -> <<>>

(***************************************************************************)
(* JSON.parse, by recursive descent over the characters                    *)
(***************************************************************************)
JsonWs == {" ", "\n", "\t", "\r"}
\* U+0000..U+001F may not appear raw inside a JSON string
ControlChars == {"\n", "\t", "\r", "\f"}
Fail == [ok |-> FALSE, v |-> JUndef, p |-> 0]
Ok(v, p) == [ok |-> TRUE, v |-> v, p |-> p]

RECURSIVE SkipWs(_, _)
SkipWs(s, p) == IF p <= Len(s) /\ s[p] \in JsonWs THEN SkipWs(s, p + 1) ELSE p

RECURSIVE SkipDigits(_, _)
SkipDigits(s, p) == IF p <= Len(s) /\ s[p] \in Digits THEN SkipDigits(s, p + 1) ELSE p

StartsAt(s, p, lit) ==
  /\ p + Len(lit) - 1 <= Len(s)
  /\ \A i \in 1..Len(lit) : s[p + i - 1] = lit[i]

\* number = -? (0 | [1-9][0-9]*) (. [0-9]+)? ([eE] [+-]? [0-9]+)?
ParseNumber(s, p) ==
  LET p1 == IF p <= Len(s) /\ s[p] = "-" THEN p + 1 ELSE p
      p2 == IF p1 <= Len(s) /\ s[p1] = "0" THEN p1 + 1 ELSE SkipDigits(s, p1)
      intOk == p2 > p1
      hasFrac == p2 <= Len(s) /\ s[p2] = "."
      p3 == IF hasFrac THEN SkipDigits(s, p2 + 1) ELSE p2
      fracOk == hasFrac => p3 > p2 + 1
      hasExp == p3 <= Len(s) /\ s[p3] \in {"e", "E"}
      p4 == IF hasExp /\ p3 + 1 <= Len(s) /\ s[p3 + 1] \in {"+", "-"} THEN p3 + 2 ELSE p3 + 1
      p5 == IF hasExp THEN SkipDigits(s, p4) ELSE p3
      expOk == hasExp => p5 > p4
  IN IF intOk /\ fracOk /\ expOk THEN Ok(JNum(SubSeq(s, p, p5 - 1)), p5) ELSE Fail

Unescape(c) ==
  CASE c = "n" -> "\n" [] c = "t" -> "\t" [] c = "r" -> "\r" [] c = "f" -> "\f"
    [] OTHER -> c

\* The number of consecutive backslashes that end at position i, not reaching
\* below position lo
BackslashRun(s, lo, i) ==
  Cardinality({r \in 1..(i - lo + 1) : \A j \in (i - r + 1)..i : s[j] = "\\"})

\* Position i holds a backslash that escapes the character after it
IsEscaper(s, lo, i) == i >= lo /\ s[i] = "\\" /\ BackslashRun(s, lo, i - 1) % 2 = 0

\* A string literal whose opening quote is at p - 1: the body runs to the first
\* quote that no backslash escapes; every escape must be a JSON escape and no
\* control character may appear raw.
ParseStringBody(s, p) ==
  LET quotes == {q \in p..Len(s) : s[q] = "\"" /\ BackslashRun(s, p, q - 1) % 2 = 0}
      close == CHOOSE q \in quotes : \A r \in quotes : q <= r
      body == [j \in 1..(close - p) |-> p + j - 1]
      wellFormed ==
        \A i \in p..(close - 1) :
          IF IsEscaper(s, p, i) THEN s[i + 1] \in {"\"", "\\", "/", "n", "t", "r", "f"}
          ELSE IsEscaper(s, p, i - 1) \/ s[i] \notin ControlChars
      kept == SelectSeq(body, LAMBDA i : ~IsEscaper(s, p, i))
  IN IF quotes = {} THEN Fail
     ELSE IF ~wellFormed THEN Fail
     ELSE Ok(JStr([j \in 1..Len(kept) |->
                     IF IsEscaper(s, p, kept[j] - 1) THEN Unescape(s[kept[j]]) ELSE s[kept[j]]]),
             close + 1)

\* The parser is written as a chain of small operators, each taking the result
\* of the step before it as a parameter.
RECURSIVE ParseValue(_, _)
RECURSIVE ParseElements(_, _, _)
RECURSIVE ParseMembers(_, _, _)

\* after an element v that ends before q: a comma continues, "]" closes
ElementsEnd(s, q, items) ==
  IF q > Len(s) THEN Fail
  ELSE IF s[q] = "," THEN ParseElements(s, q + 1, items)
  ELSE IF s[q] = "]" THEN Ok(JArr(items), q + 1)
  ELSE Fail

ElementsNext(s, r, acc) ==
  IF ~r.ok THEN Fail ELSE ElementsEnd(s, SkipWs(s, r.p), Append(acc, r.v))

\* elements after "[" or after a comma; acc holds the items so far
ParseElements(s, p, acc) == ElementsNext(s, ParseValue(s, p), acc)

\* after a member that ends before q: a comma continues, "}" closes
MembersEnd(s, q, members) ==
  IF q > Len(s) THEN Fail
  ELSE IF s[q] = "," THEN ParseMembers(s, q + 1, members)
  ELSE IF s[q] = "}" THEN Ok(JObj(members), q + 1)
  ELSE Fail

MembersNext(s, key, val, acc) ==
  IF ~val.ok THEN Fail ELSE MembersEnd(s, SkipWs(s, val.p), ObjSet(acc, key, val.v))

MembersValue(s, key, p, acc) ==
  IF p <= Len(s) /\ s[p] = ":" THEN MembersNext(s, key, ParseValue(s, p + 1), acc) ELSE Fail

MembersColon(s, key, acc) ==
  IF ~key.ok THEN Fail ELSE MembersValue(s, key.v.v, SkipWs(s, key.p), acc)

MembersKey(s, p, acc) ==
  IF p <= Len(s) /\ s[p] = "\"" THEN MembersColon(s, ParseStringBody(s, p + 1), acc) ELSE Fail

\* members after "{" or after a comma; acc holds the members so far
ParseMembers(s, p, acc) == MembersKey(s, SkipWs(s, p), acc)

ArrayAt(s, p, q) ==
  IF q <= Len(s) /\ s[q] = "]" THEN Ok(JArr(<<>>), q + 1) ELSE ParseElements(s, p + 1, <<>>)

ObjectAt(s, p, q) ==
  IF q <= Len(s) /\ s[q] = "}" THEN Ok(JObj(<<>>), q + 1) ELSE ParseMembers(s, p + 1, <<>>)

ValueAt(s, p) ==
  IF p > Len(s) THEN Fail
  ELSE IF s[p] = "[" THEN ArrayAt(s, p, SkipWs(s, p + 1))
  ELSE IF s[p] = "{" THEN ObjectAt(s, p, SkipWs(s, p + 1))
  ELSE IF s[p] = "\"" THEN ParseStringBody(s, p + 1)
  ELSE IF s[p] = "-" \/ s[p] \in Digits THEN ParseNumber(s, p)
  ELSE IF StartsAt(s, p, <<"n","u","l","l">>) THEN Ok(JNull, p + 4)
  ELSE IF StartsAt(s, p, <<"t","r","u","e">>) THEN Ok(JTrue, p + 4)
  ELSE IF StartsAt(s, p, <<"f","a","l","s","e">>) THEN Ok(JFalse, p + 5)
  ELSE Fail

ParseValue(s, p) == ValueAt(s, SkipWs(s, p))

\* nothing but whitespace may follow the value
WholeText(s, r) == IF r.ok /\ SkipWs(s, r.p) > Len(s) THEN r ELSE Fail

\* JSON.parse(text): [ok |-> FALSE] stands for the SyntaxError it throws
JsonParse(s) == WholeText(s, ParseValue(s, 1))

(***************************************************************************)
(* JSON.stringify                                                          *)
(***************************************************************************)
EscapeChar(c) ==
  CASE c = "\"" -> <<"\\", "\"">>
    [] c = "\\" -> <<"\\", "\\">>
    [] c = "\n" -> <<"\\", "n">>
    [] c = "\t" -> <<"\\", "t">>
    [] c = "\r" -> <<"\\", "r">>
    [] c = "\f" -> <<"\\", "f">>
    [] OTHER -> <<c>>

\* every character escaped, by halves so that long texts need no deep recursion
RECURSIVE EscapeChars(_)
EscapeChars(s) ==
  IF Len(s) = 0 THEN <<>>
  ELSE IF Len(s) = 1 THEN EscapeChar(s[1])
  ELSE LET h == Len(s) \div 2
       IN EscapeChars(SubSeq(s, 1, h)) \o EscapeChars(SubSeq(s, h + 1, Len(s)))

Quote(s) == <<"\"">> \o EscapeChars(s) \o <<"\"">>

RECURSIVE JsonStringify(_)
RECURSIVE StringifyItems(_)
RECURSIVE StringifyMembers(_)
StringifyItems(items) ==
  IF Len(items) = 0 THEN <<>>
  ELSE LET h == IF Head(items).t = "undef" THEN <<"n","u","l","l">> ELSE JsonStringify(Head(items))
       IN h \o (IF Len(items) > 1 THEN <<",">> ELSE <<>>) \o StringifyItems(Tail(items))
StringifyMembers(ms) ==
  IF Len(ms) = 0 THEN <<>>
  ELSE Quote(Head(ms).k) \o <<":">> \o JsonStringify(Head(ms).x)
       \o (IF Len(ms) > 1 THEN <<",">> ELSE <<>>) \o StringifyMembers(Tail(ms))
JsonStringify(x) ==
  CASE x.t = "arr" -> <<"[">> \o StringifyItems(x.v) \o <<"]">>
    [] x.t = "obj" -> <<"{">> \o StringifyMembers(SelectSeq(x.v, LAMBDA m : m.x.t # "undef")) \o <<"}">>
    [] x.t = "str" -> Quote(x.v)
    [] x.t = "num" -> x.v
    [] x.t = "true" -> <<"t","r","u","e">>
    [] x.t = "false" -> <<"f","a","l","s","e">>
    [] OTHER -> <<"n","u","l","l">>

(***************************************************************************)
(* String helpers of the handlers                                          *)
(***************************************************************************)
JsWhitespace == {" ", "\n", "\t", "\r", "\f"}

RECURSIVE TrimStart(_)
TrimStart(s) == IF Len(s) > 0 /\ Head(s) \in JsWhitespace THEN TrimStart(Tail(s)) ELSE s
RECURSIVE TrimEnd(_)
TrimEnd(s) ==
  IF Len(s) > 0 /\ s[Len(s)] \in JsWhitespace THEN TrimEnd(SubSeq(s, 1, Len(s) - 1)) ELSE s
\* String.prototype.trim
Trim(s) == TrimEnd(TrimStart(s))

\* sanitizeJsonString: drops [\x00-\x08\x0B\x0C\x0E-\x1F\x7F]; of the model's
\* characters only the form feed is in that class
SanitizeJsonChars(s) == SelectSeq(s, LAMBDA c : c # "\f")

\* .replace(/\r\n/g, '\n').replace(/\r/g, '\n'): a "\n" that follows a "\r" is
\* dropped and every "\r" becomes "\n"
NormalizeLineEndings(s) ==
  LET idx == SelectSeq([i \in 1..Len(s) |-> i],
                       LAMBDA i : ~(s[i] = "\n" /\ i > 1 /\ s[i - 1] = "\r"))
  IN [j \in 1..Len(idx) |-> IF s[idx[j]] = "\r" THEN "\n" ELSE s[idx[j]]]

\* sanitizeString: control characters removed, \r\n and \r to \n, tab to space, trim
SanitizeChars(s) ==
  LET a == SelectSeq(s, LAMBDA c : c # "\f")
      b == NormalizeLineEndings(a)
      c == [i \in 1..Len(b) |-> IF b[i] = "\t" THEN " " ELSE b[i]]
  IN Trim(c)

RECURSIVE SanitizeObject(_)
SanitizeObject(x) ==
  CASE x.t = "str" -> JStr(SanitizeChars(x.v))
    [] x.t = "arr" -> JArr([i \in 1..Len(x.v) |-> SanitizeObject(x.v[i])])
    [] x.t = "obj" -> JObj([i \in 1..Len(x.v) |-> [k |-> x.v[i].k, x |-> SanitizeObject(x.v[i].x)]])
    [] OTHER -> x

(***************************************************************************)
(* The input normalizers                                                   *)
(***************************************************************************)
\* server.js: "attempts < 5"
MaxParseAttempts == 5

KeyArray == <<"a", "r", "r", "a", "y">>

\* Object.values(x).filter(item => item && typeof item === 'object')
ObjectItems(x) == SelectSeq(ObjectValues(x), LAMBDA item : Truthy(item) /\ TypeofObject(item))

\* variant: the wrapper property is returned without the Array.isArray test
ExtractFromObjectUnchecked(x) ==
  IF Truthy(GetProp(x, KeyArray)) THEN GetProp(x, KeyArray) ELSE JArr(ObjectItems(x))

\* The "object" branch shared by the string and the object case: the list under
\* the wrapper property "array", else the object-typed values
ExtractFromObject(x) ==
  IF Truthy(GetProp(x, KeyArray)) /\ IsArray(GetProp(x, KeyArray))
  THEN GetProp(x, KeyArray)
  ELSE JArr(ObjectItems(x))

\* The while loop of parseMakeComData: decode while the value is a string,
\* stopping at the first failure (break) or after MaxParseAttempts successes.
RECURSIVE DecodeLoop(_, _)
DecodeStep(parsed, attempts, r) == IF r.ok THEN DecodeLoop(r.v, attempts + 1) ELSE parsed
DecodeLoop(parsed, attempts) ==
  IF IsString(parsed) /\ attempts < MaxParseAttempts
  THEN DecodeStep(parsed, attempts, JsonParse(parsed.v))
  ELSE parsed

\* parseMakeComData after its loop
AfterDecode(parsed) ==
  IF IsArray(parsed) THEN parsed
  ELSE IF Truthy(parsed) /\ TypeofObject(parsed) THEN ExtractFromObject(parsed)
  ELSE JArr(<<>>)

\* variant: one decode, and whatever it gives is returned
ParseOnce(data) ==
  IF IsArray(data) THEN data
  ELSE IF IsString(data) /\ JsonParse(data.v).ok THEN JsonParse(data.v).v
  ELSE JArr(<<>>)

ParseMakeComData(data) ==
  IF IsArray(data) THEN data
  ELSE IF ~Truthy(data) THEN JArr(<<>>)
  ELSE IF IsString(data) THEN AfterDecode(DecodeLoop(data, 0))
  ELSE IF TypeofObject(data) THEN ExtractFromObject(data)
  ELSE JArr(<<>>)

\* api handler, FIX 4: the text is bracket-wrapped when it does not start with
\* "[", decoded once, and anything that is not a list becomes []
BracketWrap(str) ==
  IF Len(str) > 0 /\ str[1] = "[" THEN str ELSE <<"[">> \o str \o <<"]">>
ApiDecoded(r) == IF r.ok /\ IsArray(r.v) THEN r.v ELSE JArr(<<>>)
ApiParseField(data) ==
  IF IsString(data) THEN ApiDecoded(JsonParse(BracketWrap(Trim(SanitizeJsonChars(data.v)))))
  ELSE IF IsArray(data) THEN data
  ELSE JArr(<<>>)
\* the field as the handler sees it: sanitizeObject has run over the whole body
ApiParseList(raw) == ApiParseField(SanitizeObject(raw))

\* generate-portfolio.js ensureArray
EnsureArray(data) ==
  IF IsArray(data) THEN data
  ELSE IF ~Truthy(data) THEN JArr(<<>>)
  ELSE IF TypeofObject(data) /\ Truthy(GetProp(data, KeyArray))
       THEN IF IsArray(GetProp(data, KeyArray)) THEN GetProp(data, KeyArray) ELSE JArr(<<>>)
  ELSE IF TypeofObject(data)
       THEN JArr(SelectSeq(ObjectValues(data),
                           LAMBDA item : Truthy(item) /\ TypeofObject(item) /\ ~IsArray(item)))
  ELSE JArr(<<>>)

(***************************************************************************)
(* Inputs of the normalizers                                               *)
(***************************************************************************)
MaxRecords == 2
MaxDepth == 6
MaxCutDepth == 2

DigitSeq == <<"0","1","2","3","4","5","6","7","8","9">>
DigitChar(i) == DigitSeq[i + 1]

KeyId == <<"i", "d">>
KeyCount == <<"c", "o", "u", "n", "t">>
\* the i-th evidence record, {"id": i}
Rec(i) == JObj(<<[k |-> KeyId, x |-> JNum(<<DigitChar(i)>>)]>>)
RecList(n) == JArr([i \in 1..n |-> Rec(i)])
\* {"0": rec1, "1": rec2, ...}
RecObject(n) == JObj([i \in 1..n |-> [k |-> <<DigitChar(i - 1)>>, x |-> Rec(i)]])
\* the same with a scalar metadata member
RecObjectMeta(n) == JObj(RecObject(n).v \o <<[k |-> KeyCount, x |-> JNum(<<DigitChar(n)>>)]>>)
RecWrapper(n) == JObj(<<[k |-> KeyArray, x |-> RecList(n)]>>)

\* x encoded as a JSON string k times
RECURSIVE Encode(_, _)
Encode(x, k) == IF k = 0 THEN x ELSE Encode(JStr(JsonStringify(x)), k - 1)

\* {"id":1},{"id":2}: object literals joined by commas, no brackets
RECURSIVE JoinLiterals(_)
JoinLiterals(items) ==
  IF Len(items) = 0 THEN <<>>
  ELSE JsonStringify(Head(items)) \o (IF Len(items) > 1 THEN <<",">> ELSE <<>>)
       \o JoinLiterals(Tail(items))

Scalars == <<JNull, JUndef, JNum(<<"0">>), JNum(<<"5">>), JTrue, JFalse, JStr(<<>>),
             JStr(<<"g","a","r","b","a","g","e">>), JStr(<<"5">>), JStr(<<"n","u","l","l">>),
             JStr(<<"\"","a","b","c","\"">>), JStr(<<" ","[","1",",","2","]","\t">>),
             JObj(<<[k |-> KeyArray, x |-> JNum(<<"5">>)]>>),
             JObj(<<[k |-> KeyId, x |-> JArr(<<JNum(<<"1">>)>>)]>>)>>

\* What an input is and how it was built: kind, record count n, encoding depth k,
\* cut position (truncated text) or index (scalar)
Shapes ==
  [kind : {"list", "object", "objectMeta", "wrapper"}, n : 0..MaxRecords, k : {0}, c : {0}]
  \cup [kind : {"encoded", "encodedObject", "encodedWrapper"}, n : 0..MaxRecords, k : 1..MaxDepth, c : {0}]
  \cup [kind : {"joined"}, n : 1..MaxRecords, k : 1..MaxCutDepth, c : {0}]
  \cup [kind : {"scalar"}, n : {0}, k : {0}, c : 1..Len(Scalars)]
  \cup {sh \in [kind : {"truncated", "partial"}, n : 0..MaxRecords, k : 1..MaxCutDepth,
                c : 1..Len(Encode(RecList(MaxRecords), MaxCutDepth).v)] :
          sh.c < Len(Encode(RecList(sh.n), sh.k).v)}

TextOf(sh) ==
  CASE sh.kind = "encoded" -> Encode(RecList(sh.n), sh.k)
    [] sh.kind = "encodedObject" -> Encode(RecObject(sh.n), sh.k)
    [] sh.kind = "encodedWrapper" -> Encode(RecWrapper(sh.n), sh.k)
    [] sh.kind = "joined" -> Encode(JStr(JoinLiterals(RecList(sh.n).v)), sh.k - 1)
    [] sh.kind = "partial" -> Encode(JStr(SubSeq(Encode(RecList(sh.n), sh.k).v, 1, sh.c)), 1)
    [] OTHER -> JStr(SubSeq(Encode(RecList(sh.n), sh.k).v, 1, sh.c))

InputOf(sh) ==
  CASE sh.kind = "list" -> RecList(sh.n)
    [] sh.kind = "object" -> RecObject(sh.n)
    [] sh.kind = "objectMeta" -> RecObjectMeta(sh.n)
    [] sh.kind = "wrapper" -> RecWrapper(sh.n)
    [] sh.kind = "scalar" -> Scalars[sh.c]
    [] OTHER -> TextOf(sh)

Pending == [t |-> "pending", v |-> <<>>]

NormInit ==
  /\ nShape \in Shapes
  /\ nData = InputOf(nShape)
  /\ nServer = Pending
  /\ nApi = Pending
  /\ nEnsure = Pending
  /\ NormRestIdle

\* server.js: evidenceList = parseMakeComData(portfolioData.evidenceEntries, ...)
NormalizeServer ==
  /\ nServer = Pending
  /\ nServer' = ParseMakeComData(nData)
  /\ UNCHANGED <<nShape, nData, nApi, nEnsure, normRest>>

\* api handler: FIX 4 / FIX 5
NormalizeApi ==
  /\ nApi = Pending
  /\ nApi' = ApiParseList(nData)
  /\ UNCHANGED <<nShape, nData, nServer, nEnsure, normRest>>

\* generatePortfolio: portfolioData.evidenceEntries = ensureArray(...)
NormalizeEnsure ==
  /\ nEnsure = Pending
  /\ nEnsure' = EnsureArray(nData)
  /\ UNCHANGED <<nShape, nData, nServer, nApi, normRest>>

NormNext == NormalizeServer \/ NormalizeApi \/ NormalizeEnsure

SpecNorm == NormInit /\ [][NormNext]_vars

(***************************************************************************)
(* Claims about the normalizers (checked under SpecNorm)                   *)
(***************************************************************************)
Done(x) == x.t # "pending"
Empty == JArr(<<>>)

\* C1 as stated: for a list of n records, a JSON string encoding such a list
\* at any depth k >= 1, or an object whose values are n records, the
\* normalizers of both handlers return exactly the n records, whatever k is.
C1_AnyDepth ==
  /\ (Done(nServer) /\ nShape.kind \in {"list", "encoded", "object"})
       => JEq(nServer, RecList(nShape.n))
  /\ (Done(nApi) /\ nShape.kind \in {"list", "encoded", "object"})
       => JEq(nApi, RecList(nShape.n))

\* C1, the part that holds: parseMakeComData returns exactly the n records for
\* a list, for an object whose values are the n records and for a string
\* encoded k times with 1 <= k <= 5, and the empty list for a string encoded
\* more than 5 times; the api handler's inline parsing returns the n records
\* for a list and for a string encoded once.
C1_DepthAtMostFive ==
  /\ (Done(nServer) /\ nShape.kind \in {"list", "object"}) => JEq(nServer, RecList(nShape.n))
  /\ (Done(nServer) /\ nShape.kind = "encoded" /\ nShape.k <= MaxParseAttempts)
       => JEq(nServer, RecList(nShape.n))
  /\ (Done(nServer) /\ nShape.kind = "encoded" /\ nShape.k > MaxParseAttempts)
       => JEq(nServer, Empty)
  /\ (Done(nApi) /\ (nShape.kind = "list" \/ (nShape.kind = "encoded" /\ nShape.k = 1)))
       => JEq(nApi, RecList(nShape.n))

\* Text that is JSON neither as it stands nor wrapped in brackets
Undecodable(x) ==
  /\ IsString(x)
  /\ ~JsonParse(x.v).ok
  /\ ~JsonParse(BracketWrap(x.v)).ok

\* C6: whatever the input (list, null, undefined, scalar, object, well-formed,
\* truncated or partly decodable text), each normalizer returns a list, and
\* text that cannot be decoded gives the empty list.
C6_AlwaysList ==
  /\ Done(nServer) => IsArray(nServer) /\ (Undecodable(nData) => JEq(nServer, Empty))
  /\ Done(nApi) => IsArray(nApi) /\ (Undecodable(nData) => JEq(nApi, Empty))
  /\ Done(nEnsure) => IsArray(nEnsure) /\ (Undecodable(nData) => JEq(nEnsure, Empty))

\* C6 witness: truncated text went through all three normalizers
C6_Witness ==
  /\ nShape.kind = "truncated" /\ nShape.n = MaxRecords /\ Undecodable(nData)
  /\ Done(nServer) /\ Done(nApi) /\ Done(nEnsure)
  /\ JEq(nServer, Empty) /\ JEq(nApi, Empty) /\ JEq(nEnsure, Empty)

(***************************************************************************)
(* Evidence entries, the grouped view and the flat view                    *)
(*                                                                         *)
(* A normalized entry is a record of the fields the aggregator reads.      *)
(* Title "" stands for a missing or empty Title (both falsy).  A raw Date  *)
(* is missing, text that is not a date, or a valid date with a day and a   *)
(* time of day.  Learning Areas is the list of labels, as sent in an array *)
(* or as obtained from a comma-separated string by split and trim.         *)
(***************************************************************************)
MaxEntries == 3

Untitled == "Untitled"
EntryTitles == {"", "A", "B"}
DateMissing == [kind |-> "missing", day |-> 0, min |-> 0]
DateGarbage == [kind |-> "garbage", day |-> 0, min |-> 0]
ValidDate(d, m) == [kind |-> "valid", day |-> d, min |-> m]
EntryDates == {DateMissing, DateGarbage, ValidDate(1, 0), ValidDate(2, 1)}
EntryAreas == {<<>>, <<"maths">>, <<"0", "English", "maths">>}
EntryFields == [Title : EntryTitles, Date : EntryDates, LearningAreas : EntryAreas]

\* the i-th entry of the list carries its own description text
WithDescription(f, i) ==
  [Title |-> f.Title, Date |-> f.Date, LearningAreas |-> f.LearningAreas, WhatHappened |-> i]

\* formatDate: the text shown for a date.  "dns" is 'Date not specified', "raw"
\* is String(dateInput) of an unparsable input, "long" is the en-AU long date
\* of the day (the time of day is not part of it).
FormatDate(dateInput) ==
  IF dateInput.kind = "missing" THEN [kind |-> "dns", day |-> 0]
  ELSE IF dateInput.kind = "garbage" THEN [kind |-> "raw", day |-> 0]
  ELSE [kind |-> "long", day |-> dateInput.day]

\* /^\d+$/.test(String(area)) over the labels of the model
DigitsOnly(area) == area \in {"0", "1"}

ToLowerCase(area) == IF area = "English" THEN "english" ELSE area

Mappings ==
  << <<"english", "English">>, <<"mathematics", "Mathematics">>, <<"maths", "Mathematics">>,
     <<"math", "Mathematics">>, <<"science & technology", "Science & Technology">>,
     <<"science and technology", "Science & Technology">>,
     <<"science", "Science & Technology">>, <<"hsie", "HSIE">>,
     <<"hsie (history, geography etc)", "HSIE">>, <<"history", "HSIE">>,
     <<"geography", "HSIE">>, <<"pdhpe", "PDHPE">>,
     <<"pdhpe (health, physical education)", "PDHPE">>, <<"health", "PDHPE">>,
     <<"pe", "PDHPE">>, <<"creative arts", "Creative Arts">>, <<"art", "Creative Arts">>,
     <<"music", "Creative Arts">>, <<"drama", "Creative Arts">>, <<"dance", "Creative Arts">> >>

NormalizeAreaName(area) ==
  IF area = "" THEN "Other"
  ELSE IF \E i \in 1..Len(Mappings) : Mappings[i][1] = ToLowerCase(area)
       THEN Mappings[CHOOSE i \in 1..Len(Mappings) : Mappings[i][1] = ToLowerCase(area)][2]
       ELSE area

\* the loop over areas skips falsy and all-digit labels
AcceptedArea(area) == area # "" /\ ~DigitsOnly(area)

\* title: entry.Title || entry.title || 'Untitled'
ItemTitle(entry) == IF entry.Title = "" THEN Untitled ELSE entry.Title

EvidenceItem(entry) ==
  [title |-> ItemTitle(entry), date |-> FormatDate(entry.Date),
   description |-> entry.WhatHappened]

\* evidenceByArea[normalizedArea].push(item), creating the list on first use
PushToArea(byArea, name, item) ==
  IF \E i \in 1..Len(byArea) : byArea[i].area = name
  THEN [i \in 1..Len(byArea) |->
          IF byArea[i].area = name
          THEN [area |-> name, items |-> Append(byArea[i].items, item)]
          ELSE byArea[i]]
  ELSE Append(byArea, [area |-> name, items |-> <<item>>])

RECURSIVE AddToAreas(_, _, _, _)
AddToAreas(byArea, areas, i, item) ==
  IF i > Len(areas) THEN byArea
  ELSE AddToAreas(IF AcceptedArea(areas[i])
                  THEN PushToArea(byArea, NormalizeAreaName(areas[i]), item)
                  ELSE byArea,
                  areas, i + 1, item)

RECURSIVE GroupEntries(_, _, _)
GroupEntries(entries, i, byArea) ==
  IF i > Len(entries) THEN byArea
  ELSE GroupEntries(entries, i + 1,
                    AddToAreas(byArea, entries[i].LearningAreas, 1, EvidenceItem(entries[i])))

BuildByArea(entries) == GroupEntries(entries, 1, <<>>)

\* Object.entries(evidenceByArea).forEach: the items area by area, each tagged
\* with the area it was found under
WithPrimaryArea(item, area) ==
  [title |-> item.title, date |-> item.date, description |-> item.description,
   primaryArea |-> area]

RECURSIVE Traverse(_, _, _)
Traverse(byArea, i, acc) ==
  IF i > Len(byArea) THEN acc
  ELSE Traverse(byArea, i + 1,
                acc \o [j \in 1..Len(byArea[i].items) |->
                          WithPrimaryArea(byArea[i].items[j], byArea[i].area)])

\* evidence.title || 'Untitled'
TitleKey(evidence) == IF evidence.title = "" THEN Untitled ELSE evidence.title

\* a variant that keeps the last item of each title instead of the first
UniqueEvidenceLast(all) ==
  SelectSeq([i \in 1..Len(all) |->
               IF \E j \in (i + 1)..Len(all) : TitleKey(all[j]) = TitleKey(all[i])
               THEN [title |-> "", date |-> all[i].date, description |-> 0,
                     primaryArea |-> ""]
               ELSE all[i]],
            LAMBDA e : e.description # 0)

RECURSIVE KeepUnseen(_, _, _, _)
KeepUnseen(all, i, seenTitles, uniqueEvidence) ==
  IF i > Len(all) THEN uniqueEvidence
  ELSE IF TitleKey(all[i]) \in seenTitles
       THEN KeepUnseen(all, i + 1, seenTitles, uniqueEvidence)
       ELSE KeepUnseen(all, i + 1, seenTitles \cup {TitleKey(all[i])},
                       Append(uniqueEvidence, all[i]))

\* seenTitles / uniqueEvidence: the first item of each title, in traversal order
UniqueEvidence(all) == KeepUnseen(all, 1, {}, <<>>)

\* new Date(text): only the long date parses back, to midnight of its day
NewDate(text) ==
  IF text.kind = "long" THEN [nan |-> FALSE, t |-> text.day] ELSE [nan |-> TRUE, t |-> 0]

\* new Date(evidence.date || 0): an empty date text gives the epoch
DateOrEpoch(text) == IF text.kind = "empty" THEN [nan |-> FALSE, t |-> 0] ELSE NewDate(text)

\* dateB - dateA, as Array.prototype.sort reads it: NaN counts as 0
Difference(dateB, dateA) == IF dateA.nan \/ dateB.nan THEN 0 ELSE dateB.t - dateA.t
CompareByDate(a, b) == Difference(DateOrEpoch(b.date), DateOrEpoch(a.date))

\* ECMAScript: the comparator is consistent over the items (equality by it and
\* precedence by it are transitive); otherwise the order after sort is
\* implementation-defined
ConsistentComparator(u) ==
  \A i, j, k \in 1..Len(u) :
    /\ (CompareByDate(u[i], u[j]) = 0 /\ CompareByDate(u[j], u[k]) = 0)
         => CompareByDate(u[i], u[k]) = 0
    /\ (CompareByDate(u[i], u[j]) < 0 /\ CompareByDate(u[j], u[k]) < 0)
         => CompareByDate(u[i], u[k]) < 0

InsertAt(sorted, p, x) == SubSeq(sorted, 1, p) \o <<x>> \o SubSeq(sorted, p + 1, Len(sorted))

\* stable: x goes after every item that does not come after it
InsertStable(sorted, x) ==
  InsertAt(sorted, Cardinality({i \in 1..Len(sorted) : CompareByDate(sorted[i], x) <= 0}), x)

RECURSIVE StableSort(_, _, _)
StableSort(u, i, sorted) ==
  IF i > Len(u) THEN sorted ELSE StableSort(u, i + 1, InsertStable(sorted, u[i]))

Rearrangements(u) == {[i \in 1..Len(u) |-> u[p[i]]] : p \in Permutations(1..Len(u))}

\* uniqueEvidence.sort(...): every order the sort may leave the items in
SortOutcomes(u) ==
  IF ConsistentComparator(u) THEN {StableSort(u, 1, <<>>)} ELSE Rearrangements(u)

EvInit ==
  /\ eEntries = <<>>
  /\ eByArea = <<>>
  /\ eFlat = <<>>
  /\ ePc = "start"
  /\ EvRestIdle

\* the request arrives: evidenceEntries is a list of at most MaxEntries entries
ReceiveEntries ==
  /\ ePc = "start"
  /\ \E n \in 0..MaxEntries : \E fs \in [1..n -> EntryFields] :
       eEntries' = [i \in 1..n |-> WithDescription(fs[i], i)]
  /\ ePc' = "input"
  /\ UNCHANGED <<eByArea, eFlat, evRest>>

\* api handler, FIX 6: build evidenceByArea from evidenceEntries
BuildEvidenceByArea ==
  /\ ePc = "input"
  /\ eByArea' = BuildByArea(eEntries)
  /\ ePc' = "grouped"
  /\ UNCHANGED <<eEntries, eFlat, evRest>>

\* generateEvidenceSectionsFlat: placeholder when there is no area, otherwise
\* dedup by title, sort by date, render in that order
GenerateEvidenceSectionsFlat ==
  /\ ePc = "grouped"
  /\ IF Len(eByArea) = 0
     THEN eFlat' = <<>>
     ELSE eFlat' \in SortOutcomes(UniqueEvidence(Traverse(eByArea, 1, <<>>)))
  /\ ePc' = "flat"
  /\ UNCHANGED <<eEntries, eByArea, evRest>>

EvNext == ReceiveEntries \/ BuildEvidenceByArea \/ GenerateEvidenceSectionsFlat

SpecEvidence == EvInit /\ [][EvNext]_vars

(***************************************************************************)
(* Claims about the grouped and flat views (checked under SpecEvidence)    *)
(***************************************************************************)
Rendered == ePc = "flat"
EntryIds == 1..Len(eEntries)
FlatIds == 1..Len(eFlat)
\* the positions of the flat view that show entry i
ShownAt(i) == {j \in FlatIds : eFlat[j].description = i}
\* entry i declares at least one area the aggregator accepts
Grouped(i) == \E a \in 1..Len(eEntries[i].LearningAreas) : AcceptedArea(eEntries[i].LearningAreas[a])
SameTitle(i) == {k \in EntryIds : ItemTitle(eEntries[k]) = ItemTitle(eEntries[i])}
HasValidDate(i) == eEntries[i].Date.kind = "valid"
\* entry i is dated strictly later than entry k
Later(i, k) ==
  /\ HasValidDate(i) /\ HasValidDate(k)
  /\ \/ eEntries[i].Date.day > eEntries[k].Date.day
     \/ eEntries[i].Date.day = eEntries[k].Date.day /\ eEntries[i].Date.min > eEntries[k].Date.min

\* C2: every normalized entry appears exactly once in the flat view, whatever
\* areas it declares (none, one, several) and whatever its title (missing too).
C2_EveryEntryOnce ==
  Rendered => \A i \in EntryIds : Cardinality(ShownAt(i)) = 1

AllItems == Traverse(eByArea, 1, <<>>)
\* the first position of the area-by-area traversal that holds title t
FirstWithTitle(t) ==
  CHOOSE p \in 1..Len(AllItems) :
    /\ AllItems[p].title = t
    /\ \A q \in 1..(p - 1) : AllItems[q].title # t

C8_FirstInInputOrderKept ==
  Rendered =>
    \A j \in FlatIds :
      \A k \in EntryIds :
        (Grouped(k) /\ ItemTitle(eEntries[k]) = eFlat[j].title) => eFlat[j].description <= k

\* C9: the flat view is ordered most recent first, and an entry whose date is
\* missing or invalid comes after every entry with a valid date.
C9_MostRecentFirst ==
  Rendered =>
    \A i, j \in FlatIds :
      i < j =>
        /\ ~Later(eFlat[j].description, eFlat[i].description)
        /\ ~(~HasValidDate(eFlat[i].description) /\ HasValidDate(eFlat[j].description))

(***************************************************************************)
(* Learning-area overviews                                                 *)
(*                                                                         *)
(* An object argument is [kind, members]: kind "undefined" (field absent), *)
(* "null", or "object" with its own properties in order, each [k, n].      *)
(* For learningAreaOverviews n = 1 when the overview has a stageStatement;  *)
(* for evidenceByArea n is the number of items of the area; for            *)
(* aiProgressSummaries n = 1 when the summary is a non-empty text.         *)
(***************************************************************************)
MaxAreaEvidence == 2

StandardAreas ==
  <<"English", "Mathematics", "Science & Technology", "HSIE", "PDHPE", "Creative Arts">>

Undefined == [kind |-> "undefined", members |-> <<>>]
Null == [kind |-> "null", members |-> <<>>]
Object(members) == [kind |-> "object", members |-> members]
Member(k, n) == [k |-> k, n |-> n]

OverviewChoices ==
  {Undefined, Null, Object(<<>>), Object(<<Member("English", 1)>>),
   Object(<<Member("HSIE", 0), Member("Robotics", 0)>>), Object(<<Member("0", 1)>>)}
EvidenceChoices ==
  {Undefined, Null, Object(<<>>)}
  \cup {Object(<<Member("Mathematics", n)>>) : n \in 0..MaxAreaEvidence}
  \cup {Object(<<Member("Robotics", n), Member("English", 1)>>) : n \in 0..MaxAreaEvidence}
\* curriculumOutcomes: the 'Learning Area' label of each outcome
OutcomeChoices == {<<>>, <<"English">>, <<"maths", "Mathematics", "Robotics">>}
SummaryChoices ==
  {Undefined, Null, Object(<<>>), Object(<<Member("Mathematics", 1)>>),
   Object(<<Member("PDHPE", 1), Member("English", 0)>>)}

\* destructuring default / parameter default: replaces undefined only
OrDefault(x) == IF x.kind = "undefined" THEN Object(<<>>) ELSE x
\* x || {}
OrEmpty(x) == IF x.kind = "object" THEN x ELSE Object(<<>>)
\* Object.keys(x || {})
Keys(x) == [i \in 1..Len(OrEmpty(x).members) |-> OrEmpty(x).members[i].k]
Has(x, k) == \E i \in 1..Len(x.members) : x.members[i].k = k
\* x[k] of an object, 0 standing for undefined
Get(x, k) == IF Has(x, k) THEN x.members[CHOOSE i \in 1..Len(x.members) : x.members[i].k = k].n ELSE 0
\* x[k] throws a TypeError when x is null or undefined
ReadThrows(x) == x.kind # "object"

\* new Set([...]): insertion order, first occurrence
RECURSIVE SetOrder(_, _, _)
SetOrder(list, i, acc) ==
  IF i > Len(list) THEN acc
  ELSE SetOrder(list, i + 1,
                IF \E j \in 1..Len(acc) : acc[j] = list[i] THEN acc ELSE Append(acc, list[i]))

IsStandard(area) == \E i \in 1..Len(StandardAreas) : StandardAreas[i] = area
\* !area || area === '0' || area === '1' || /^\d+$/.test(area)
SkippedName(area) == area = "" \/ DigitsOnly(area)

AreaOutcomeCount(outcomes, area) ==
  Cardinality({i \in 1..Len(outcomes) : NormalizeAreaName(outcomes[i]) = area})

Expectations(overviews, outcomes, area) ==
  IF Get(overviews, area) = 1 THEN "stageStatement"
  ELSE IF AreaOutcomeCount(outcomes, area) > 0 THEN "outcomes" ELSE "generic"

Progress(summaries, count, area) ==
  IF Get(summaries, area) = 1 THEN "aiSummary"
  ELSE IF count > 0 THEN "count" ELSE "noEvidence"

Section(in, evidence, area) ==
  [area |-> area,
   expectations |-> Expectations(in.overviews, in.outcomes, area),
   progress |-> Progress(in.summaries, Get(evidence, area), area),
   count |-> Get(evidence, area)]

Threw == [threw |-> TRUE, sections |-> <<>>]
Returned(sections) == [threw |-> FALSE, sections |-> sections]

\* allAreas.forEach(area => ...): one area after the other, stopping at a throw
RECURSIVE ForEachArea(_, _, _, _, _)
ForEachArea(in, evidence, allAreas, i, sections) ==
  IF i > Len(allAreas) THEN Returned(sections)
  ELSE IF SkippedName(allAreas[i]) THEN ForEachArea(in, evidence, allAreas, i + 1, sections)
  ELSE IF ~IsStandard(allAreas[i]) /\ ReadThrows(in.overviews) THEN Threw
  ELSE IF /\ ~IsStandard(allAreas[i])
          /\ ~Has(in.overviews, allAreas[i])
          /\ Get(evidence, allAreas[i]) = 0
       THEN ForEachArea(in, evidence, allAreas, i + 1, sections)
  ELSE IF ReadThrows(in.overviews) \/ ReadThrows(in.summaries) THEN Threw
  ELSE ForEachArea(in, evidence, allAreas, i + 1,
                   Append(sections, Section(in, evidence, allAreas[i])))

AllAreas(in) == SetOrder(StandardAreas \o Keys(in.overviews) \o Keys(in.evidenceByArea), 1, <<>>)

GenerateOverviews(in) == ForEachArea(in, OrEmpty(in.evidenceByArea), AllAreas(in), 1, <<>>)

\* generatePortfolio: defaults for the absent fields, then the call
WithDefaults(data) ==
  [overviews |-> OrDefault(data.overviews), evidenceByArea |-> OrDefault(data.evidenceByArea),
   outcomes |-> data.outcomes, summaries |-> OrDefault(data.summaries)]

OvInit ==
  /\ oIn = <<>>
  /\ oOut = <<>>
  /\ oPc = "start"
  /\ OvRestIdle

\* portfolioData reaches generatePortfolio
ReceivePortfolioData ==
  /\ oPc = "start"
  /\ \E ov \in OverviewChoices, ev \in EvidenceChoices, oc \in OutcomeChoices,
        su \in SummaryChoices :
       oIn' = [overviews |-> ov, evidenceByArea |-> ev, outcomes |-> oc, summaries |-> su]
  /\ oPc' = "input"
  /\ UNCHANGED <<oOut, ovRest>>

\* generatePortfolio: generateLearningAreaOverviews(...)
GenerateLearningAreaOverviews ==
  /\ oPc = "input"
  /\ oOut' = GenerateOverviews(WithDefaults(oIn))
  /\ oPc' = "done"
  /\ UNCHANGED <<oIn, ovRest>>

OvNext == ReceivePortfolioData \/ GenerateLearningAreaOverviews

SpecOverview == OvInit /\ [][OvNext]_vars

(***************************************************************************)
(* Claims about the overviews (checked under SpecOverview)                 *)
(***************************************************************************)
SectionsOf(area) == {j \in 1..Len(oOut.sections) : oOut.sections[j].area = area}
\* the number of evidence items the input holds for the area
EvidenceFor(area) == Get(OrEmpty(oIn.evidenceByArea), area)

\* C3: for any input the overview has exactly one section for each of the six
\* standard areas, and a standard area without evidence shows the no-evidence
\* statement.
C3_SixStandardSections ==
  oPc = "done" =>
    /\ ~oOut.threw
    /\ \A a \in 1..Len(StandardAreas) :
         /\ Cardinality(SectionsOf(StandardAreas[a])) = 1
         /\ EvidenceFor(StandardAreas[a]) = 0 =>
              \A j \in SectionsOf(StandardAreas[a]) : oOut.sections[j].progress = "noEvidence"

(***************************************************************************)
(* The two request handlers, stage by stage                                *)
(*                                                                         *)
(* A request is [handler, method, body, childName, yearLevel,              *)
(* reportingPeriod, entries, outcomes, overviewsNull, apiKey].  body is    *)
(* "invalid" (not JSON), "null" (the JSON text null) or "object"; a field  *)
(* flag is TRUE when the field is present and non-empty; an entry is       *)
(* [null, areas, images]: a null element, or a record with that many       *)
(* accepted learning areas and image attachments.                          *)
(***************************************************************************)
MaxRequestEntries == 2
MaxEntryImages == 1

RequestEntries == [null : {FALSE}, areas : 0..1, images : 0..MaxEntryImages]
                    \cup {[null |-> TRUE, areas |-> 0, images |-> 0]}
EntrySeqs == UNION {[1..n -> RequestEntries] : n \in 0..MaxRequestEntries}

ApiRequests ==
  [handler : {"api"}, method : {"POST"}, body : {"object"},
   childName : BOOLEAN, yearLevel : BOOLEAN, reportingPeriod : BOOLEAN,
   entries : EntrySeqs, outcomes : 0..1, overviewsNull : BOOLEAN, apiKey : BOOLEAN]
  \cup [handler : {"api"}, method : {"OPTIONS", "GET", "PUT"}, body : {"object"},
        childName : BOOLEAN, yearLevel : {TRUE}, reportingPeriod : {TRUE},
        entries : {<<>>}, outcomes : {0}, overviewsNull : {FALSE}, apiKey : {FALSE}]
  \cup [handler : {"api"}, method : {"POST"}, body : {"invalid", "null"},
        childName : {FALSE}, yearLevel : {FALSE}, reportingPeriod : {FALSE},
        entries : {<<>>}, outcomes : {0}, overviewsNull : {FALSE}, apiKey : BOOLEAN]
\* express.json hands the route a parsed object
ServerRequests ==
  [handler : {"server"}, method : {"POST"}, body : {"object"},
   childName : BOOLEAN, yearLevel : BOOLEAN, reportingPeriod : BOOLEAN,
   entries : EntrySeqs, outcomes : 0..1, overviewsNull : BOOLEAN, apiKey : {FALSE}]

\* !portfolioData.childName || !portfolioData.yearLevel
MissingRequired(req) == ~req.childName \/ ~req.yearLevel

\* generatePortfolio throws on a null learningAreaOverviews; the api handler
\* has replaced it beforehand when there are curriculum outcomes
ComposeThrows(req) ==
  req.overviewsNull /\ ~(req.handler = "api" /\ req.outcomes > 0)

\* what one pass of the grouping loop body runs for an entry
EntryStages(entry) ==
  (IF entry.areas > 0 THEN {"classification", "aggregation"} ELSE {})
  \cup (IF entry.images > 0 THEN {"attachmentFetch"} ELSE {})

Respond(resp) ==
  /\ rResp' = resp
  /\ rPc' = "done"

Goto(pc) ==
  /\ rPc' = pc
  /\ rResp' = rResp

RqInit ==
  /\ rReq = <<>>
  /\ rPc = "start"
  /\ rIdx = 0
  /\ rLog = {}
  /\ rResp = "none"
  /\ RqRestIdle

\* a request reaches one of the handlers
ReceiveRequest ==
  /\ rPc = "start"
  /\ \E req \in ApiRequests \cup ServerRequests :
       /\ rReq' = req
       /\ rPc' = IF req.handler = "api" THEN "method" ELSE "serverValidate"
  /\ UNCHANGED <<rIdx, rLog, rResp, rqRest>>

\* api handler: preflight, health check, method check
ApiMethod ==
  /\ rPc = "method"
  /\ IF rReq.method = "OPTIONS" THEN Respond("preflight200")
     ELSE IF rReq.method = "GET" THEN Respond("health200")
     ELSE IF rReq.method # "POST" THEN Respond("method405")
     ELSE Goto("body")
  /\ UNCHANGED <<rReq, rIdx, rLog, rqRest>>

\* api handler: read the raw body, sanitize, JSON.parse
ApiParseBody ==
  /\ rPc = "body"
  /\ IF rReq.body = "invalid" THEN Respond("invalidJson400") ELSE Goto("normalize")
  /\ UNCHANGED <<rReq, rIdx, rLog, rqRest>>

\* api handler: sanitizeObject and FIX 1 to FIX 5; reading a field of a null
\* body throws, and the outer catch answers 500
ApiNormalize ==
  /\ rPc = "normalize"
  /\ IF rReq.body = "null" THEN Respond("error500") ELSE Goto("group")
  /\ rIdx' = 1
  /\ UNCHANGED <<rReq, rLog, rqRest>>

\* api handler, FIX 6: one pass of the loop over evidenceEntries; reading
\* 'Learning Areas' of a null entry throws
ApiGroupEntry ==
  /\ rPc = "group"
  /\ rIdx <= Len(rReq.entries)
  /\ IF rReq.entries[rIdx].null
     THEN Respond("error500") /\ UNCHANGED <<rIdx, rLog>>
     ELSE /\ Goto("group")
          /\ rIdx' = rIdx + 1
          /\ rLog' = rLog \cup EntryStages(rReq.entries[rIdx])
  /\ UNCHANGED <<rReq, rqRest>>

\* api handler, FIX 7: build learningAreaOverviews from curriculumOutcomes
ApiBuildOverviews ==
  /\ rPc = "group"
  /\ rIdx > Len(rReq.entries)
  /\ rLog' = IF rReq.outcomes > 0 THEN rLog \cup {"overviewBuild"} ELSE rLog
  /\ Goto("validate")
  /\ UNCHANGED <<rReq, rIdx, rqRest>>

\* api handler: validate required fields
ApiValidate ==
  /\ rPc = "validate"
  /\ IF MissingRequired(rReq) THEN Respond("validation400") ELSE Goto("enhance")
  /\ UNCHANGED <<rReq, rIdx, rLog, rqRest>>

\* api handler: AI enhancements (a summary per area with evidence) and logo
ApiEnhance ==
  /\ rPc = "enhance"
  /\ rLog' = rLog \cup {"logoFetch"}
               \cup (IF rReq.apiKey /\ "aggregation" \in rLog THEN {"enhancement"} ELSE {})
  /\ Goto("compose")
  /\ UNCHANGED <<rReq, rIdx, rqRest>>

\* either handler: doc = generatePortfolio(portfolioData)
Compose ==
  /\ rPc = "compose"
  /\ IF ComposeThrows(rReq)
     THEN Respond("error500") /\ UNCHANGED rLog
     ELSE Goto("render") /\ rLog' = rLog \cup {"composition"}
  /\ UNCHANGED <<rReq, rIdx, rqRest>>

\* either handler: buffer = await Packer.toBuffer(doc)
Render ==
  /\ rPc = "render"
  /\ rLog' = rLog \cup {"rendering"}
  /\ Goto(IF rReq.handler = "api" THEN "store" ELSE "send")
  /\ UNCHANGED <<rReq, rIdx, rqRest>>

\* api handler: upload to the blob store (which may fail) and answer with the URL
ApiStore ==
  /\ rPc = "store"
  /\ \E stored \in BOOLEAN :
       IF stored
       THEN Respond("document200") /\ rLog' = rLog \cup {"storage"}
       ELSE Respond("error500") /\ UNCHANGED rLog
  /\ UNCHANGED <<rReq, rIdx, rqRest>>

\* server.js: validate required fields, first thing in the route
ServerValidate ==
  /\ rPc = "serverValidate"
  /\ IF MissingRequired(rReq) THEN Respond("validation400") ELSE Goto("serverParse")
  /\ UNCHANGED <<rReq, rIdx, rLog, rqRest>>

\* server.js: parseMakeComData for both arrays
ServerParse ==
  /\ rPc = "serverParse"
  /\ Goto("compose")
  /\ UNCHANGED <<rReq, rIdx, rLog, rqRest>>

\* server.js: headers and res.send(buffer); reportingPeriod.replace throws when
\* the field is absent
ServerSend ==
  /\ rPc = "send"
  /\ Respond(IF rReq.reportingPeriod THEN "document200" ELSE "error500")
  /\ UNCHANGED <<rReq, rIdx, rLog, rqRest>>

RqNext ==
  \/ ReceiveRequest
  \/ ApiMethod
  \/ ApiParseBody
  \/ ApiNormalize
  \/ ApiGroupEntry
  \/ ApiBuildOverviews
  \/ ApiValidate
  \/ ApiEnhance
  \/ Compose
  \/ Render
  \/ ApiStore
  \/ ServerValidate
  \/ ServerParse
  \/ ServerSend

SpecRequest == RqInit /\ [][RqNext]_vars

(***************************************************************************)
(* Claims about validation (checked under SpecRequest)                     *)
(***************************************************************************)
Answered == rPc = "done"
\* a POST whose body is JSON, so that its fields can be looked at
FieldsReadable == rReq.method = "POST" /\ rReq.body # "invalid"

\* C4: a request without childName or yearLevel ends with the validation error
\* response, and no document is composed, rendered, stored or returned.
C4_ValidationErrorNoDocument ==
  (Answered /\ FieldsReadable /\ MissingRequired(rReq)) =>
    /\ rResp = "validation400"
    /\ rLog \cap {"composition", "rendering", "storage"} = {}

\* C5: when the validation error is returned, no later stage has executed.
C5_NothingRunsBeforeValidationError ==
  rResp = "validation400" => rLog = {}

(***************************************************************************)
(* Outcome codes rendered under a flat-view entry                          *)
(*                                                                         *)
(* Text is a sequence of characters.  matchedOutcomes is [shape, items]:   *)
(* shape "string" (the items joined by ", "), "array" (the items as        *)
(* strings), "objects" (each item the code of an object with a             *)
(* description) or "nullItem" (an array holding the items and a null).     *)
(***************************************************************************)
MaxOutcomeTokens == 3

UpperCase ==
  {"A", "B", "C", "D", "E", "F", "G", "H", "I", "J", "K", "L", "M",
   "N", "O", "P", "Q", "R", "S", "T", "U", "V", "W", "X", "Y", "Z"}
DigitChars == {"0", "1", "2", "3", "4", "5", "6", "7", "8", "9"}

TokNsw == <<"E", "N", "2", "-", "O", "L", "C", "-", "0", "1">>
TokAcara == <<"A", "C", "9", "E", "2", "L", "Y", "0", "1">>
TokGarbage == <<"g", "a", "r", "b", "a", "g", "e">>
TokNoStage == <<"E", "N", "G", "-", "O", "L", "C", "-", "0", "1">>
TokRecordId == <<"r", "e", "c", "A", "1", "b", "2", "C", "3", "d", "4", "E", "5", "f", "6", "G", "7">>
TokLongStrand == <<"M", "A", "3", "-", "A", "B", "C", "D", "E", "F", "G", "-", "0", "1">>
TokPrefixed == <<"X", "E", "N", "2", "-", "O", "L", "C", "-", "0", "1">>
TokTrailing == <<"E", "N", "2", "-", "O", "L", "C", "-", "0", "1", "2">>
TokLower == <<"e", "n", "2", "-", "o", "l", "c", "-", "0", "1">>
TokDescribed == <<"H", "S", "1", "-", "A", "B", "-", "1", "2", ":", " ", "M", "a", "p", "s">>
TokEmpty == <<>>
TokOtherState == <<"V", "C", "2", "-", "E", "N", "-", "0", "3">>
OutcomeTokens ==
  {TokNsw, TokAcara, TokGarbage, TokNoStage, TokRecordId, TokLongStrand,
   TokPrefixed, TokTrailing, TokLower, TokDescribed, TokEmpty, TokOtherState}
OutcomeShapes == {"string", "array", "objects", "nullItem"}
ObjectDescription == <<"R", "e", "a", "d", "s">>

InRange(s, i) == i >= 1 /\ i <= Len(s)
AllIn(s, from, n, chars) == \A i \in from..(from + n - 1) : InRange(s, i) /\ s[i] \in chars
CharAt(s, i, c) == InRange(s, i) /\ s[i] = c

\* [A-Z]{a}\d{d}-[A-Z]{b}-\d{2} matches s from position p on
CodeShapeAt(s, p, a, d, b) ==
  /\ AllIn(s, p, a, UpperCase)
  /\ AllIn(s, p + a, d, DigitChars)
  /\ CharAt(s, p + a + d, "-")
  /\ AllIn(s, p + a + d + 1, b, UpperCase)
  /\ CharAt(s, p + a + d + 1 + b, "-")
  /\ AllIn(s, p + a + d + b + 2, 2, DigitChars)

\* the ways /[A-Z]{2,3}\d?-[A-Z]{2,6}-\d{2}/ can match at p: <<a, d, b>>
CodeWaysAt(s, p) ==
  {w \in (2..3) \X (0..1) \X (2..6) : CodeShapeAt(s, p, w[1], w[2], w[3])}

\* greedy quantifiers: the longest first group, then the digit, then the
\* longest second group
Preferred(ways) ==
  CHOOSE w \in ways :
    \A v \in ways :
      \/ w[1] > v[1]
      \/ w[1] = v[1] /\ w[2] > v[2]
      \/ w[1] = v[1] /\ w[2] = v[2] /\ w[3] >= v[3]

MatchLength(w) == w[1] + w[2] + w[3] + 4

\* displayText.match(/([A-Z]{2,3}\d?-[A-Z]{2,6}-\d{2})/): leftmost match
CodePositions(s) == {p \in 1..Len(s) : CodeWaysAt(s, p) # {}}
FirstPosition(positions) == CHOOSE p \in positions : \A q \in positions : p <= q
CaptureAt(s, p) == SubSeq(s, p, p + MatchLength(Preferred(CodeWaysAt(s, p))) - 1)

\* the text as it is, nothing extracted from it
Untouched(trimmed) == trimmed

\* displayText = outcomeText.trim(); if (codeMatch) displayText = codeMatch[1]
DisplayOf(trimmed) ==
  IF CodePositions(trimmed) = {} THEN trimmed
  ELSE CaptureAt(trimmed, FirstPosition(CodePositions(trimmed)))
DisplayText(outcomeText) == DisplayOf(Trim(outcomeText))

NswPrefixes == {<<"E", "N">>, <<"M", "A">>, <<"S", "T">>, <<"H", "S">>, <<"P", "H">>, <<"C", "A">>}

\* a variant of the final test that lets every text through
AnyText(code) == Len(code) >= 0

\* nswPattern.test(code): /^(EN|MA|ST|HS|PH|CA)\d-[A-Z]{2,6}-\d{2}$/
NswPattern(code) ==
  /\ Len(code) >= 2
  /\ SubSeq(code, 1, 2) \in NswPrefixes
  /\ \E b \in 2..6 :
       /\ Len(code) = b + 7
       /\ AllIn(code, 3, 1, DigitChars)
       /\ CharAt(code, 4, "-")
       /\ AllIn(code, 5, b, UpperCase)
       /\ CharAt(code, 5 + b, "-")
       /\ AllIn(code, 6 + b, 2, DigitChars)

\* items.join(', '): the comma-joined text the api handler stores
RECURSIVE JoinItems(_, _, _)
JoinItems(items, i, text) ==
  IF i > Len(items) THEN text
  ELSE JoinItems(items, i + 1, (IF i = 1 THEN text ELSE text \o <<",", " ">>) \o items[i])

\* text.split(','): the pieces between the commas
RECURSIVE SplitCommas(_, _, _, _)
SplitCommas(text, i, piece, pieces) ==
  IF i > Len(text) THEN Append(pieces, piece)
  ELSE IF text[i] = "," THEN SplitCommas(text, i + 1, <<>>, Append(pieces, piece))
  ELSE SplitCommas(text, i + 1, Append(piece, text[i]), pieces)

NonEmpty(text) == Len(text) > 0

\* outcome.startsWith('rec') && outcome.length === 17
IsRecordId(outcome) == Len(outcome) = 17 /\ SubSeq(outcome, 1, 3) = <<"r", "e", "c">>

\* `${outcome.code || ''}: ${outcome.description || ''}`; the objects at odd
\* positions carry a description
ObjectText(items, i) ==
  items[i] \o <<":", " ">> \o (IF i % 2 = 1 THEN ObjectDescription ELSE <<>>)

TrimAll(pieces) == [i \in 1..Len(pieces) |-> Trim(pieces[i])]

\* outcomesList, by the shape of matchedOutcomes
OutcomesList(shape, items) ==
  IF shape = "string"
  THEN SelectSeq(TrimAll(SplitCommas(JoinItems(items, 1, <<>>), 1, <<>>, <<>>)), NonEmpty)
  ELSE IF shape = "objects"
  THEN SelectSeq([i \in 1..Len(items) |-> ObjectText(items, i)],
                 LAMBDA text : Trim(text) # <<":">>)
  ELSE SelectSeq(items, LAMBDA outcome : ~IsRecordId(outcome))

\* the guard in front: matchedOutcomes is truthy and not blank
HasOutcomes(shape, items) ==
  IF shape = "string" THEN NonEmpty(Trim(JoinItems(items, 1, <<>>))) ELSE Len(items) > 0

\* filteredOutcomes: map to the display text, keep what passes nswPattern
FilteredOutcomes(outcomesList) ==
  SelectSeq([i \in 1..Len(outcomesList) |-> DisplayText(outcomesList[i])], NswPattern)

RenderThrew == [threw |-> TRUE, rendered |-> <<>>]
RenderedList(list) == [threw |-> FALSE, rendered |-> list]

\* the strings rendered as bullets under the entry; outcome.code of a null
\* array element throws
RenderOutcomes(shape, items) ==
  IF shape = "nullItem" THEN RenderThrew
  ELSE IF ~HasOutcomes(shape, items) THEN RenderedList(<<>>)
  ELSE RenderedList(FilteredOutcomes(OutcomesList(shape, items)))

MoInit ==
  /\ moIn = <<>>
  /\ moOut = <<>>
  /\ moPc = "start"
  /\ MoRestIdle

\* an entry of the flat view with its matchedOutcomes
ReceiveMatchedOutcomes ==
  /\ moPc = "start"
  /\ \E shape \in OutcomeShapes, n \in 0..MaxOutcomeTokens :
       \E items \in [1..n -> OutcomeTokens] :
         moIn' = [shape |-> shape, items |-> items]
  /\ moPc' = "input"
  /\ UNCHANGED <<moOut, moRest>>

\* generateEvidenceSectionsFlat: matched outcomes, filtered to NSW codes
RenderMatchedOutcomes ==
  /\ moPc = "input"
  /\ moOut' = RenderOutcomes(moIn.shape, moIn.items)
  /\ moPc' = "done"
  /\ UNCHANGED <<moIn, moRest>>

MoNext == ReceiveMatchedOutcomes \/ RenderMatchedOutcomes

SpecOutcome == MoInit /\ [][MoNext]_vars

(***************************************************************************)
(* Claims about the rendered outcome codes (checked under SpecOutcome)     *)
(***************************************************************************)
\* the whole text is 2-3 letters, an optional digit, a hyphen, 2-6 letters, a
\* hyphen and 2 digits
IsCode(text) ==
  \E a \in 2..3, d \in 0..1, b \in 2..6 :
    /\ Len(text) = a + d + b + 4
    /\ \A i \in 1..a : text[i] \in UpperCase
    /\ \A i \in (a + 1)..(a + d) : text[i] \in DigitChars
    /\ text[a + d + 1] = "-"
    /\ \A i \in (a + d + 2)..(a + d + b + 1) : text[i] \in UpperCase
    /\ text[a + d + b + 2] = "-"
    /\ \A i \in (a + d + b + 3)..(a + d + b + 4) : text[i] \in DigitChars

\* text holds a code somewhere
HoldsCode(text) ==
  \E i \in 1..Len(text) : \E j \in i..Len(text) : IsCode(SubSeq(text, i, j))

\* code is a piece of text
OccursIn(code, text) ==
  \E p \in 1..Len(text) :
    p + Len(code) - 1 <= Len(text) /\ SubSeq(text, p, p + Len(code) - 1) = code

ThreeCandidates == <<TokNsw, TokAcara, TokGarbage>>

\* C10: every outcome string rendered under an entry is a code of the grammar,
\* whatever the shape of the raw references; there are no more rendered strings
\* than candidates that hold a code, a record ID is never rendered, and from
\* EN2-OLC-01, AC9E2LY01, garbage only EN2-OLC-01 is rendered.
C10_OnlyCodesRendered ==
  moPc = "done" =>
    /\ \A j \in 1..Len(moOut.rendered) :
         /\ IsCode(moOut.rendered[j])
         /\ moOut.rendered[j] # TokRecordId
         /\ \E i \in 1..Len(moIn.items) :
              /\ HoldsCode(moIn.items[i])
              /\ OccursIn(moOut.rendered[j], moIn.items[i])
    /\ Len(moOut.rendered) <= Cardinality({i \in 1..Len(moIn.items) : HoldsCode(moIn.items[i])})
    /\ (moIn.items = ThreeCandidates /\ ~moOut.threw) => moOut.rendered = <<TokNsw>>

\* C10 witness: the three candidates were sent comma-joined and one code came out
C10_Witness ==
  /\ moPc = "done"
  /\ moIn.shape = "string"
  /\ moIn.items = ThreeCandidates
  /\ moOut.rendered = <<TokNsw>>

\* the codes of the grammar a text holds, by the positions of their first and
\* last character; a code has 8 to 14 characters
CodesHeld(text) ==
  {w \in (1..Len(text)) \X (1..Len(text)) :
     w[2] - w[1] \in 7..13 /\ IsCode(SubSeq(text, w[1], w[2]))}
\* the code that starts first in a text that holds one
FirstCode(text) ==
  LET held == CodesHeld(text)
      w == CHOOSE w \in held : \A v \in held : w[1] <= v[1]
  IN SubSeq(text, w[1], w[2])
\* a code of the six NSW syllabus prefixes with its stage digit
IsNswCode(code) ==
  /\ IsCode(code)
  /\ SubSeq(code, 1, 2) \in NswPrefixes
  /\ code[3] \in DigitChars
YieldsNswCode(text) == CodesHeld(text) # {} /\ IsNswCode(FirstCode(text))

\* C26 as stated: of the candidate strings of an array, exactly those that are
\* a code of the grammar from their first character to their last are
\* rendered, whatever their letter prefix; a candidate with characters before
\* or after a code contributes nothing.
C26_RetainedIffExactCode ==
  (moPc = "done" /\ moIn.shape = "array") =>
    moOut.rendered = SelectSeq(moIn.items, IsCode)

\* C26 as the code has it: a candidate contributes a string if and only if the
\* first code of the grammar held in its text is an NSW code (prefix EN, MA,
\* ST, HS, PH or CA followed by a stage digit), and what it contributes is that
\* code, cut out of any characters around it; candidates contribute in order.
C26_RetainedIffFirstCodeIsNsw ==
  (moPc = "done" /\ ~moOut.threw) =>
    LET yielding == SelectSeq(moIn.items, YieldsNswCode)
    IN moOut.rendered = [i \in 1..Len(yielding) |-> FirstCode(yielding[i])]

\* C26 witness: an array of a code of another prefix, a code followed by one
\* more digit and a code without stage digit gave the one code cut out of the
\* second candidate
C26_Witness ==
  /\ moPc = "done"
  /\ moIn.shape = "array"
  /\ moIn.items = <<TokOtherState, TokTrailing, TokNoStage>>
  /\ moOut.rendered = <<TokNsw>>

(***************************************************************************)
(* The grouped evidence listing (generateEvidenceSections): content        *)
(* sampling, the statistics of what was left out, and the curriculum       *)
(* outcomes not yet addressed.                                             *)
(*                                                                         *)
(* evidenceByArea is a sequence of [area, list] in property order; an      *)
(* evidence item is [id, engagement, matchedOutcomes], matchedOutcomes the *)
(* codes of its outcome objects.  allOutcomes is the catalogue, by code.   *)
(***************************************************************************)
MaxAreas == 3
MaxTotal == 30
MaxPerArea == 5

LowerLetters ==
  <<"a", "b", "c", "d", "e", "f", "g", "h", "i", "j", "k", "l", "m",
    "n", "o", "p", "q", "r", "s", "t", "u", "v", "w", "x", "y", "z">>
UpperLetters ==
  <<"A", "B", "C", "D", "E", "F", "G", "H", "I", "J", "K", "L", "M",
    "N", "O", "P", "Q", "R", "S", "T", "U", "V", "W", "X", "Y", "Z">>
LetterIndex(letters, c) == CHOOSE i \in 1..26 : letters[i] = c
ToUpperChar(c) ==
  IF \E i \in 1..26 : LowerLetters[i] = c THEN UpperLetters[LetterIndex(LowerLetters, c)] ELSE c
ToLowerChar(c) ==
  IF \E i \in 1..26 : UpperLetters[i] = c THEN LowerLetters[LetterIndex(UpperLetters, c)] ELSE c
ToUpper(text) == [i \in 1..Len(text) |-> ToUpperChar(text[i])]
ToLower(text) == [i \in 1..Len(text) |-> ToLowerChar(text[i])]

AreaNames == <<"English", "Mathematics", "Creative Arts", "HSIE">>
AreaSizes == {0, 1, 10, 15}
EngagementTiers == <<"Medium", "High", "Very High", "Unsure", "Low">>
CodeEnglish == TokNsw
CodeMaths == <<"M", "A", "2", "-", "R", "N", "-", "0", "1">>
CodeOther == TokOtherState

\* how the items of one area are laid out: size items, all 'High' or with
\* the tiers in rotation, and the item at position codeAt (0: none) matched
\* to an outcome code, the Mathematics one for the first item
AreaProfiles ==
  {pr \in [size : AreaSizes, rotate : BOOLEAN, codeAt : 0..15] :
     /\ pr.codeAt \in {0, 1, pr.size}
     /\ pr.size <= 1 => ~pr.rotate}
Catalogues == {<<>>, <<CodeEnglish, CodeMaths>>, <<CodeMaths, CodeOther, CodeEnglish>>}

EvidenceOf(a, i, pr) ==
  [id |-> <<a, i>>,
   engagement |-> IF pr.rotate THEN EngagementTiers[((i - 1) % 5) + 1] ELSE "High",
   matchedOutcomes |->
     IF i # pr.codeAt THEN <<>> ELSE IF i = 1 THEN <<CodeMaths>> ELSE <<CodeEnglish>>]
AreaOf(a, pr) ==
  [area |-> AreaNames[a], list |-> [i \in 1..pr.size |-> EvidenceOf(a, i, pr)]]

\* Object.values(evidenceByArea).flat().length
RECURSIVE FlatLength(_, _)
FlatLength(byArea, i) ==
  IF i > Len(byArea) THEN 0 ELSE Len(byArea[i].list) + FlatLength(byArea, i + 1)

\* engagementOrder[x.engagement] || 0
EngagementScore(evidence) ==
  CASE evidence.engagement = "Very High" -> 3
    [] evidence.engagement = "High" -> 2
    [] evidence.engagement = "Medium" -> 1
    [] OTHER -> 0

WithScore(list, score) == SelectSeq(list, LAMBDA evidence : EngagementScore(evidence) = score)
\* the list in the order it was given
KeepOrder(list) == list

\* evidenceList.sort((a, b) => bScore - aScore): stable, highest score first
SortByEngagement(list) ==
  WithScore(list, 3) \o WithScore(list, 2) \o WithScore(list, 1) \o WithScore(list, 0)

\* sorted.slice(0, maxPerArea)
Slice(list, n) == SubSeq(list, 1, IF Len(list) < n THEN Len(list) ELSE n)

NonEmptyAreas(byArea) == SelectSeq(byArea, LAMBDA entry : Len(entry.list) > 0)

\* the input returned whole, whatever its size
ReturnAll(byArea, maxTotal) == byArea

\* selectDiverseEvidence: the input itself when it is within maxTotal, else
\* for each area with evidence its maxPerArea most engaged items
SelectDiverseEvidence(byArea, maxTotal) ==
  IF FlatLength(byArea, 1) <= maxTotal THEN byArea
  ELSE [i \in 1..Len(NonEmptyAreas(byArea)) |->
          [area |-> NonEmptyAreas(byArea)[i].area,
           list |-> Slice(SortByEngagement(NonEmptyAreas(byArea)[i].list), MaxPerArea)]]

\* evidenceList.sort sorts the caller's list in place
SortedInPlace(byArea, maxTotal) ==
  IF FlatLength(byArea, 1) <= maxTotal THEN byArea
  ELSE [i \in 1..Len(byArea) |->
          [area |-> byArea[i].area, list |-> SortByEngagement(byArea[i].list)]]

HasArea(byArea, area) == \E i \in 1..Len(byArea) : byArea[i].area = area
\* byArea[area] || []
ListOf(byArea, area) ==
  IF HasArea(byArea, area)
  THEN byArea[CHOOSE i \in 1..Len(byArea) : byArea[i].area = area].list
  ELSE <<>>

StatisticOf(entry, selected) ==
  [area |-> entry.area, total |-> Len(entry.list),
   shown |-> Len(ListOf(selected, entry.area)),
   additional |-> Len(entry.list) - Len(ListOf(selected, entry.area))]

\* no count is recorded
NoStatistics(byArea, selected) == <<>>

\* generateEvidenceStatistics: a record for every area with total > shown
GenerateEvidenceStatistics(byArea, selected) ==
  SelectSeq([i \in 1..Len(byArea) |-> StatisticOf(byArea[i], selected)],
            LAMBDA stat : stat.total > stat.shown)

\* areaMap[outcome.code.substring(0, 2).toUpperCase()], "" standing for undefined
AreaMap(code) ==
  LET codePrefix == ToUpper(SubSeq(code, 1, 2))
  IN CASE codePrefix = <<"E", "N">> -> "English"
       [] codePrefix = <<"M", "A">> -> "Mathematics"
       [] codePrefix = <<"S", "T">> -> "Science and Technology"
       [] codePrefix = <<"H", "S">> -> "Human Society and Its Environment"
       [] codePrefix = <<"C", "A">> -> "Creative Arts"
       [] codePrefix \in {<<"P", "H">>, <<"P", "D">>} ->
            "Personal Development, Health and Physical Education"
       [] OTHER -> ""

\* outcomesByArea[area], [] standing for undefined
OutcomesByArea(allOutcomes, area) == SelectSeq(allOutcomes, LAMBDA code : AreaMap(code) = area)

\* the codes added to the Set over a list of evidence
CodesOf(list) ==
  UNION {{list[i].matchedOutcomes[j] : j \in 1..Len(list[i].matchedOutcomes)} : i \in 1..Len(list)}

RECURSIVE AllEvidence(_, _)
AllEvidence(byArea, i) ==
  IF i > Len(byArea) THEN <<>> ELSE byArea[i].list \o AllEvidence(byArea, i + 1)

\* identifyUnaddressedOutcomes: the outcomes whose code no evidence carries
IdentifyUnaddressedOutcomes(allOutcomes, byArea) ==
  SelectSeq(allOutcomes, LAMBDA code : code \notin CodesOf(AllEvidence(byArea, 1)))

\* the outcomes of the area that none of the area's evidence carries
UnaddressedInArea(allOutcomes, byArea, area) ==
  SelectSeq(OutcomesByArea(allOutcomes, area),
            LAMBDA code : code \notin CodesOf(ListOf(byArea, area)))

\* generateEvidenceSections, for each area of selectedEvidence with evidence:
\* the items listed, the 'Plus N additional' disclosure (0: none) and the
\* outcomes listed as not yet addressed in the area
AreaSection(in, selected, statistics, entry) ==
  [area |-> entry.area,
   listed |-> entry.list,
   additional |->
     IF \E k \in 1..Len(statistics) : statistics[k].area = entry.area
     THEN statistics[CHOOSE k \in 1..Len(statistics) : statistics[k].area = entry.area].additional
     ELSE 0,
   notAddressed |-> UnaddressedInArea(in.allOutcomes, in.evidenceByArea, entry.area)]

SectionsFor(in, selected, statistics) ==
  [areas |-> [i \in 1..Len(NonEmptyAreas(selected)) |->
                AreaSection(in, selected, statistics, NonEmptyAreas(selected)[i])],
   statistics |-> statistics,
   \* section 3.9, rendered when there is a catalogue
   unaddressed |->
     IF Len(in.allOutcomes) > 0
     THEN IdentifyUnaddressedOutcomes(in.allOutcomes, in.evidenceByArea)
     ELSE <<>>]

GenerateSections(in) ==
  SectionsFor(in, SelectDiverseEvidence(in.evidenceByArea, MaxTotal),
              GenerateEvidenceStatistics(in.evidenceByArea,
                                         SelectDiverseEvidence(in.evidenceByArea, MaxTotal)))

SeInit ==
  /\ sIn = <<>>
  /\ sOut = <<>>
  /\ sPc = "start"
  /\ SeRestIdle

\* portfolioData.evidenceByArea and portfolioData.allOutcomes of a request
ReceiveEvidenceByArea ==
  /\ sPc = "start"
  /\ \E k \in 1..MaxAreas, allOutcomes \in Catalogues :
       \E pr \in [1..k -> AreaProfiles] :
         sIn' = [evidenceByArea |-> [a \in 1..k |-> AreaOf(a, pr[a])],
                 allOutcomes |-> allOutcomes]
  /\ sPc' = "input"
  /\ UNCHANGED <<sOut, seRest>>

\* generatePortfolio: generateEvidenceSections and the section of outcomes
\* not yet addressed; the sort leaves the caller's lists reordered
GenerateEvidenceSections ==
  /\ sPc = "input"
  /\ sOut' = GenerateSections(sIn)
  /\ sIn' = [sIn EXCEPT !.evidenceByArea = SortedInPlace(sIn.evidenceByArea, MaxTotal)]
  /\ sPc' = "done"
  /\ UNCHANGED seRest

SeNext == ReceiveEvidenceByArea \/ GenerateEvidenceSections

SpecSections == SeInit /\ [][SeNext]_vars

(***************************************************************************)
(* Claims about the grouped listing (checked under SpecSections)           *)
(***************************************************************************)
\* the evidence of the area an outcome belongs to
OwnEvidence(code) == ListOf(sIn.evidenceByArea, AreaMap(code))
Catalogue == {sIn.allOutcomes[i] : i \in 1..Len(sIn.allOutcomes)}
InGapList(code) == \E i \in 1..Len(sOut.unaddressed) : sOut.unaddressed[i] = code
InAreaGapList(code) ==
  \E i \in 1..Len(sOut.areas) :
    \E j \in 1..Len(sOut.areas[i].notAddressed) : sOut.areas[i].notAddressed[j] = code

\* C11: an outcome of the catalogue is reported as not yet addressed, in
\* section 3.9 and under its area, if and only if no evidence of its own area
\* carries its code; all evidence of the area counts, shown or not, and
\* evidence of another area does not.
C11_GapIffNoEvidenceInOwnArea ==
  sPc = "done" =>
    \A code \in Catalogue :
      /\ InGapList(code) <=> code \notin CodesOf(OwnEvidence(code))
      /\ InAreaGapList(code) <=> code \notin CodesOf(OwnEvidence(code))

Sum(f, n) == LET S[i \in 0..n] == IF i = 0 THEN 0 ELSE S[i - 1] + f[i] IN S[n]
InputTotal == FlatLength(sIn.evidenceByArea, 1)
ShownTotal == Sum([i \in 1..Len(sOut.areas) |-> Len(sOut.areas[i].listed)], Len(sOut.areas))
ElidedTotal ==
  Sum([i \in 1..Len(sOut.statistics) |-> sOut.statistics[i].additional], Len(sOut.statistics))
FortyAcrossThree ==
  /\ sPc = "done"
  /\ Len(sIn.evidenceByArea) = 3
  /\ \A i \in 1..3 : Len(sIn.evidenceByArea[i].list) > 0
  /\ InputTotal = 40

\* C12 as stated: 40 entries across 3 areas give at most 5 shown per area, at
\* most 30 shown in total, and elided counts that sum to 10.
C12_ElidedSumsToTen ==
  FortyAcrossThree =>
    /\ \A i \in 1..Len(sOut.areas) : Len(sOut.areas[i].listed) <= MaxPerArea
    /\ ShownTotal <= MaxTotal
    /\ ElidedTotal = 10

\* C12 amended: 40 entries across 3 areas give at most 5 shown per area, so at
\* most 15 shown in total, and elided counts that sum to 40 minus the number
\* shown, which is 25 when every area has 5 entries or more.
C12_ElidedSumsToRest ==
  FortyAcrossThree =>
    /\ \A i \in 1..Len(sOut.areas) : Len(sOut.areas[i].listed) <= MaxPerArea
    /\ ShownTotal <= 3 * MaxPerArea
    /\ ShownTotal <= MaxTotal
    /\ ElidedTotal = 40 - ShownTotal
    /\ (\A i \in 1..3 : Len(sIn.evidenceByArea[i].list) >= MaxPerArea) => ElidedTotal = 25

\* C12 witness: 15, 15 and 10 entries were sampled down to 5 each
C12_Witness ==
  /\ FortyAcrossThree
  /\ ShownTotal = 15
  /\ ElidedTotal = 25

StatisticFor(area) ==
  {sOut.statistics[k] : k \in {k \in 1..Len(sOut.statistics) : sOut.statistics[k].area = area}}
ShownOf(area) ==
  IF \E i \in 1..Len(sOut.areas) : sOut.areas[i].area = area
  THEN Len(sOut.areas[CHOOSE i \in 1..Len(sOut.areas) : sOut.areas[i].area = area].listed)
  ELSE 0
DisclosedOf(area) ==
  IF \E i \in 1..Len(sOut.areas) : sOut.areas[i].area = area
  THEN sOut.areas[CHOOSE i \in 1..Len(sOut.areas) : sOut.areas[i].area = area].additional
  ELSE 0

\* C13: after sampling every area of the input with more entries than shown
\* has exactly one record, whose elided count is total minus shown and is the
\* count disclosed under the area; an area with as many shown as it has has no
\* record; the elided counts sum to the input total minus the shown total.
C13_ElidedIsTotalMinusShown ==
  sPc = "done" =>
    /\ \A i \in 1..Len(sIn.evidenceByArea) :
         LET area == sIn.evidenceByArea[i].area
             total == Len(sIn.evidenceByArea[i].list)
         IN /\ total > ShownOf(area) =>
                 /\ Cardinality(StatisticFor(area)) = 1
                 /\ \A stat \in StatisticFor(area) :
                      /\ stat.additional = total - ShownOf(area)
                      /\ stat.total = total
                      /\ stat.shown = ShownOf(area)
                 /\ DisclosedOf(area) = total - ShownOf(area)
            /\ total = ShownOf(area) => StatisticFor(area) = {} /\ DisclosedOf(area) = 0
            /\ total >= ShownOf(area)
    /\ ElidedTotal = InputTotal - ShownTotal

\* C13 witness: sampling took place, one area lost entries and another, with
\* a single entry, lost none
C13_Witness ==
  /\ sPc = "done"
  /\ InputTotal > MaxTotal
  /\ \E i, j \in 1..Len(sIn.evidenceByArea) :
       /\ Len(sIn.evidenceByArea[i].list) = 15
       /\ DisclosedOf(sIn.evidenceByArea[i].area) = 10
       /\ Len(sIn.evidenceByArea[j].list) = 1
       /\ StatisticFor(sIn.evidenceByArea[j].area) = {}

(***************************************************************************)
(* The resource extractor (extractResourcesFromEvidence).  Texts are kept  *)
(* as strings in the state and read character by character.                *)
(***************************************************************************)
MaxResourceEntries == 2

Chars(text) == [i \in 1..Len(text) |-> SubSeq(text, i, i)]

\* knownResources, in property order: pattern, resource name
KnownResources ==
  <<
     <<"minecraft", "Minecraft (digital game)">>,
     <<"roblox", "Roblox (digital game)">>,
     <<"lego", "LEGO (construction toys)">>,
     <<"youtube", "YouTube (video platform)">>,
     <<"flight simulator", "Flight Simulator (app)">>,
     <<"flightradar", "Flight tracking app">>,
     <<"pool", "Local swimming pool">>,
     <<"swimming pool", "Local swimming pool">>,
     <<"geode", "Geodes (geological specimens)">>,
     <<"geodes", "Geodes (geological specimens)">>,
     <<"psychologist", "Child psychologist sessions">>,
     <<"the lorax", "The Lorax (film/book)">>,
     <<"watercolour", "Watercolour paints">>,
     <<"watercolor", "Watercolour paints">>,
     <<"acrylic paint", "Acrylic paints">>,
     <<"texta", "Textas/markers">>,
     <<"textas", "Textas/markers">>,
     <<"marker", "Textas/markers">>,
     <<"pencil", "Pencils">>,
     <<"pencils", "Pencils">>,
     <<"crayon", "Crayons">>,
     <<"crayons", "Crayons">>,
     <<"hot glue", "Hot glue gun">>,
     <<"bead", "Beads">>,
     <<"beads", "Beads">>,
     <<"paint", "Paints">>,
     <<"book", "Books">>,
     <<"library", "Library">>,
     <<"ipad", "iPad/tablet">>,
     <<"tablet", "iPad/tablet">>,
     <<"computer", "Computer">>
  >>

\* the characters of the resource names in UTF-16 code unit order
CodeUnitOrder == Chars(" ()/ABCDEFGHIJKLMNOPQRSTUVWXYZabcdefghijklmnopqrstuvwxyz")
CodeUnit(c) == CHOOSE i \in 1..Len(CodeUnitOrder) : CodeUnitOrder[i] = c

\* a < b as Array.prototype.sort() compares strings
RECURSIVE Before(_, _, _)
Before(a, b, i) ==
  IF i > Len(b) THEN FALSE
  ELSE IF i > Len(a) THEN TRUE
  ELSE IF a[i] = b[i] THEN Before(a, b, i + 1)
  ELSE CodeUnit(a[i]) < CodeUnit(b[i])
NameBefore(a, b) == Before(Chars(a), Chars(b), 1)

\* String.prototype.includes
Includes(text, pattern) ==
  \E p \in 0..(Len(text) - Len(pattern)) : SubSeq(text, p + 1, p + Len(pattern)) = pattern

\* the description alone
DescriptionOnly(evidence) == ToLower(Chars(evidence.description))

\* combined = description.toLowerCase() + ' ' + title.toLowerCase()
Combined(evidence) ==
  ToLower(Chars(evidence.description)) \o <<" ">> \o ToLower(Chars(evidence.title))

\* addResource: the name is added unless a name equal to it in lower case was
\* added before
AddResource(resources, resourceName) ==
  IF \E i \in 1..Len(resources) : ToLower(Chars(resources[i])) = ToLower(Chars(resourceName))
  THEN resources
  ELSE Append(resources, resourceName)

\* Object.entries(knownResources).forEach over one evidence item
RECURSIVE MatchPatterns(_, _, _)
MatchPatterns(combined, k, resources) ==
  IF k > Len(KnownResources) THEN resources
  ELSE MatchPatterns(combined, k + 1,
         IF Includes(combined, ToLower(Chars(KnownResources[k][1])))
         THEN AddResource(resources, KnownResources[k][2])
         ELSE resources)

RECURSIVE ScanEvidence(_, _, _)
ScanEvidence(all, i, resources) ==
  IF i > Len(all) THEN resources
  ELSE ScanEvidence(all, i + 1, MatchPatterns(Combined(all[i]), 1, resources))

\* the names left in insertion order
Unsorted(resources) == resources

\* Array.from(resources).sort()
RECURSIVE SortNames(_)
SortNames(resources) ==
  IF resources = <<>> THEN <<>>
  ELSE LET least == CHOOSE i \in 1..Len(resources) :
                      \A j \in 1..Len(resources) : ~NameBefore(resources[j], resources[i])
       IN <<resources[least]>> \o
          SortNames(SubSeq(resources, 1, least - 1) \o
                    SubSeq(resources, least + 1, Len(resources)))

\* extractResourcesFromEvidence
ExtractResourcesFromEvidence(byArea) ==
  SortNames(ScanEvidence(AllEvidence(byArea, 1), 1, <<>>))

\* evidence items: a keyword in the description, in the title, in both, in
\* neither, in mixed case, and split between the two
ResourceItem(title, description) == [title |-> title, description |-> description]
ResourceEvidence ==
  { ResourceItem("", ""),
    ResourceItem("", "We used Minecraft and LEGO today"),
    ResourceItem("", "minecraft again"),
    ResourceItem("minecraft again", ""),
    ResourceItem("minecraft again", "We used Minecraft and LEGO today"),
    ResourceItem("glue gun", ""),
    ResourceItem("glue gun", "hot"),
    ResourceItem("", "hot"),
    ResourceItem("", "iPad at the POOL") }

ReInit ==
  /\ xIn = <<>>
  /\ xOut = <<>>
  /\ xPc = "start"
  /\ ReRestIdle

\* evidenceByArea: n items, the first k under English, the others under
\* Mathematics
ReceiveResourceEvidence ==
  /\ xPc = "start"
  /\ \E n \in 0..MaxResourceEntries :
       \E k \in 0..n, ev \in [1..n -> ResourceEvidence] :
         xIn' = << [area |-> "English", list |-> SubSeq(ev, 1, k)],
                   [area |-> "Mathematics", list |-> SubSeq(ev, k + 1, n)] >>
  /\ xPc' = "input"
  /\ UNCHANGED <<xOut, reRest>>

\* generatePortfolio, section 6: the extractor reads evidenceByArea
ExtractResources ==
  /\ xPc = "input"
  /\ xOut' = ExtractResourcesFromEvidence(xIn)
  /\ xPc' = "done"
  /\ UNCHANGED <<xIn, reRest>>

ReNext == ReceiveResourceEvidence \/ ExtractResources

SpecResources == ReInit /\ [][ReNext]_vars

(***************************************************************************)
(* Claims about the resource extractor (checked under SpecResources)       *)
(***************************************************************************)
ResourceNames == {KnownResources[k][2] : k \in 1..Len(KnownResources)}
KeywordsOf(name) ==
  {ToLower(Chars(KnownResources[k][1])) : k \in {k \in 1..Len(KnownResources) : KnownResources[k][2] = name}}
Extracted(name) == \E i \in 1..Len(xOut) : xOut[i] = name
Times(name) == Cardinality({i \in 1..Len(xOut) : xOut[i] = name})
ScannedEvidence == AllEvidence(xIn, 1)
MinecraftAndLego ==
  /\ Len(ScannedEvidence) = 2
  /\ ScannedEvidence[1] = [title |-> "", description |-> "We used Minecraft and LEGO today"]
  /\ ScannedEvidence[2] = [title |-> "", description |-> "minecraft again"]

\* C14 as stated: a resource name is extracted if and only if the title or
\* the description of some evidence entry contains one of the resource's
\* keywords, letter case aside, and then it is extracted exactly once.
C14_KeywordInTitleOrDescription ==
  xPc = "done" =>
    \A name \in ResourceNames :
      /\ Extracted(name) <=>
           \E i \in 1..Len(ScannedEvidence), keyword \in KeywordsOf(name) :
             \/ Includes(ToLower(Chars(ScannedEvidence[i].title)), keyword)
             \/ Includes(ToLower(Chars(ScannedEvidence[i].description)), keyword)
      /\ Times(name) <= 1

\* C14 amended: a resource name is extracted if and only if the description
\* and the title of some evidence entry, joined by a space, contain one of the
\* resource's keywords, letter case aside; it is extracted exactly once, and
\* 'We used Minecraft and LEGO today' plus 'minecraft again' give one LEGO and
\* one Minecraft entry.
C14_KeywordInCombinedText ==
  xPc = "done" =>
    /\ \A name \in ResourceNames :
         /\ Extracted(name) <=>
              \E i \in 1..Len(ScannedEvidence), keyword \in KeywordsOf(name) :
                Includes(ToLower(Chars(ScannedEvidence[i].description)) \o <<" ">> \o
                         ToLower(Chars(ScannedEvidence[i].title)), keyword)
         /\ Times(name) <= 1
    /\ \A i \in 1..Len(xOut) : xOut[i] \in ResourceNames
    /\ MinecraftAndLego => xOut = <<"LEGO (construction toys)", "Minecraft (digital game)">>

\* C14 witness: the two descriptions of the example were scanned
C14_Witness ==
  /\ xPc = "done"
  /\ MinecraftAndLego
  /\ Times("Minecraft (digital game)") = 1
  /\ Times("LEGO (construction toys)") = 1

\* every order the same evidence can arrive in: the areas swapped, the items
\* of an area rearranged, all items under one area
Reorderings(byArea) ==
  {<< [area |-> byArea[p[1]].area, list |-> l1], [area |-> byArea[p[2]].area, list |-> l2] >> :
     p \in Permutations(1..2), l1 \in Rearrangements(byArea[1].list),
     l2 \in Rearrangements(byArea[2].list)}
  \cup {<< [area |-> "English", list |-> all], [area |-> "Mathematics", list |-> <<>>] >> :
          all \in Rearrangements(AllEvidence(byArea, 1))}

\* C15: the list returned is in ascending order without repeats, it is the
\* list returned for the same evidence in any other order of entries or
\* areas, and the call leaves the evidence as it was.
C15_SortedAndOrderInsensitive ==
  /\ [](xPc = "done" =>
          /\ \A i \in 1..(Len(xOut) - 1) : NameBefore(xOut[i], xOut[i + 1])
          /\ \A other \in Reorderings(xIn) : ExtractResourcesFromEvidence(other) = xOut)
  /\ [][xPc = "input" => xIn' = xIn]_vars

\* C15 witness: two entries naming different resources, the later name first
\* in the result
C15_Witness ==
  /\ xPc = "done"
  /\ Len(xOut) >= 2
  /\ Len(ScannedEvidence) = 2
  /\ Extracted("iPad/tablet")
  /\ ScanEvidence(ScannedEvidence, 1, <<>>) # xOut

(***************************************************************************)
(* The document composer (generatePortfolio), sections 3 to 6: the flat    *)
(* evidence listing, the parent assessment, the future plans and the       *)
(* resources.  The fields read are JavaScript values, except               *)
(* evidenceByArea, which is [kind, areas] with areas a sequence of         *)
(* [area, items, array], array FALSE for a null list.  A part is a         *)
(* sequence of paragraphs [kind, text], kind "heading", "text", "bullet",  *)
(* "entry" or "placeholder" (the italic sentence of an empty part).        *)
(***************************************************************************)
MaxListed == 2

Str(text) == JStr(Chars(text))
Prop(k, x) == [k |-> Chars(k), x |-> x]
Field(x, k) == GetProp(x, Chars(k))
\* a || b
OrElse(a, b) == IF Truthy(a) THEN a ELSE b
\* x.k throws a TypeError when x is null or undefined
FieldThrows(x) == x.t \in {"null", "undef"}

Paragraph(kind, chars) == [kind |-> kind, text |-> chars]
Placeholder(text) == Paragraph("placeholder", Chars(text))
Blank(chars) == Trim(chars) = <<>>

Domains == <<"cognitive", "social", "emotional", "physical">>
NoAssessment == Str("No assessment provided.")

\* typeof progressAssessment === 'string': JSON.parse, {} when it throws
ParseProgressAssessment(progressAssessment) ==
  IF IsString(progressAssessment)
  THEN IF JsonParse(progressAssessment.v).ok THEN JsonParse(progressAssessment.v).v
       ELSE JObj(<<>>)
  ELSE progressAssessment

\* the raw input first, then the enhanced value
RawFirst(enhanced, parsed, domain) ==
  OrElse(Field(parsed, domain), OrElse(Field(enhanced, domain), NoAssessment))

\* enhancedProgressAssessment.x || parsedProgressAssessment.x || "No assessment provided."
FinalAssessment(enhanced, parsed, domain) ==
  OrElse(Field(enhanced, domain), OrElse(Field(parsed, domain), NoAssessment))

\* the second operand is read only when the first is falsy
AssessmentThrows(enhanced, parsed, domain) ==
  \/ FieldThrows(enhanced)
  \/ ~Truthy(Field(enhanced, domain)) /\ FieldThrows(parsed)

\* .replace(/\\n/g, '\n').replace(/\\"/g, '"')
RECURSIVE Unescaped(_)
Unescaped(chars) ==
  IF Len(chars) = 0 THEN <<>>
  ELSE IF Len(chars) >= 2 /\ chars[1] = "\\" /\ chars[2] = "n"
       THEN <<"\n">> \o Unescaped(SubSeq(chars, 3, Len(chars)))
  ELSE IF Len(chars) >= 2 /\ chars[1] = "\\" /\ chars[2] = "\""
       THEN <<"\"">> \o Unescaped(SubSeq(chars, 3, Len(chars)))
  ELSE <<chars[1]>> \o Unescaped(Tail(chars))

\* .replace(/^\{?\s*/, '{')
BraceStart(chars) ==
  <<"{">> \o TrimStart(IF Len(chars) > 0 /\ chars[1] = "{" THEN Tail(chars) ELSE chars)
\* .replace(/\s*\}?$/, '}'): the leftmost run of whitespace, with a closing
\* brace or not, that ends the text
BraceEndAt(chars) ==
  CHOOSE p \in 1..(Len(chars) + 1) :
    /\ \E q \in p..(Len(chars) + 1) :
         /\ \A i \in p..(q - 1) : chars[i] \in JsWhitespace
         /\ q = Len(chars) + 1 \/ (q = Len(chars) /\ chars[q] = "}")
    /\ \A r \in 1..(p - 1) :
         ~\E q \in r..(Len(chars) + 1) :
            /\ \A i \in r..(q - 1) : chars[i] \in JsWhitespace
            /\ q = Len(chars) + 1 \/ (q = Len(chars) /\ chars[q] = "}")
BraceEnd(chars) == SubSeq(chars, 1, BraceEndAt(chars) - 1) \o <<"}">>

OverviewOnly(chars) == JObj(<<[k |-> Chars("overview"), x |-> JStr(chars)]>>)

\* typeof futurePlans === 'string': JSON.parse of the cleaned text; a text
\* that names "overview" or "goals" is given braces and parsed again; any
\* other text becomes the overview
ParseFuturePlans(futurePlans) ==
  IF ~IsString(futurePlans) THEN futurePlans
  ELSE IF JsonParse(Unescaped(futurePlans.v)).ok THEN JsonParse(Unescaped(futurePlans.v)).v
  ELSE IF \/ Includes(futurePlans.v, Chars("\"overview\""))
          \/ Includes(futurePlans.v, Chars("\"goals\""))
       THEN IF JsonParse(BraceEnd(BraceStart(futurePlans.v))).ok
            THEN JsonParse(BraceEnd(BraceStart(futurePlans.v))).v
            ELSE OverviewOnly(futurePlans.v)
  ELSE OverviewOnly(futurePlans.v)

\* x.trim() throws a TypeError when x is truthy and not a string
TrimThrows(x) == Truthy(x) /\ ~IsString(x)
\* x && x.trim() !== ''
HasText(x) == IsString(x) /\ ~Blank(x.v)

RECURSIVE RunLength(_, _, _)
RunLength(chars, p, class) ==
  IF p <= Len(chars) /\ chars[p] \in class THEN 1 + RunLength(chars, p + 1, class) ELSE 0

\* the length of the separator that starts at p, 0 when none does:
\*   "lines"       /[\n\r]+/
\*   "goals"       /(?:\.?\s+)(?=To\s)/i
\*   "strategies"  /,\s+(?=[A-Z])/
\*   "planned"     /[,\n]+/
SeparatorLength(rule, chars, p) ==
  CASE rule = "lines" -> RunLength(chars, p, {"\n", "\r"})
    [] rule = "planned" -> RunLength(chars, p, {",", "\n"})
    [] rule = "goals" ->
         LET dot == IF chars[p] = "." THEN 1 ELSE 0
             run == RunLength(chars, p + dot, JsWhitespace)
             q == p + dot + run
         IN IF /\ run >= 1
               /\ q + 2 <= Len(chars)
               /\ ToUpperChar(chars[q]) = "T"
               /\ ToUpperChar(chars[q + 1]) = "O"
               /\ chars[q + 2] \in JsWhitespace
            THEN dot + run ELSE 0
    [] rule = "strategies" ->
         LET run == RunLength(chars, p + 1, JsWhitespace)
         IN IF /\ chars[p] = ","
               /\ run >= 1
               /\ p + 1 + run <= Len(chars)
               /\ chars[p + 1 + run] \in UpperCase
            THEN 1 + run ELSE 0

\* String.prototype.split(separator)
RECURSIVE Split(_, _, _, _, _)
Split(rule, chars, p, piece, pieces) ==
  IF p > Len(chars) THEN Append(pieces, piece)
  ELSE IF SeparatorLength(rule, chars, p) > 0
       THEN Split(rule, chars, p + SeparatorLength(rule, chars, p), <<>>, Append(pieces, piece))
       ELSE Split(rule, chars, p + 1, Append(piece, chars[p]), pieces)

\* .split(...).filter(g => g.trim())
NonBlankPieces(rule, chars) ==
  SelectSeq(Split(rule, chars, 1, <<>>, <<>>), LAMBDA piece : ~Blank(piece))

Bullets(pieces) == [i \in 1..Len(pieces) |-> Paragraph("bullet", Trim(pieces[i]))]

\* destructuring default: replaces undefined only
WithDefault(x, default) == IF x.t = "undef" THEN default ELSE x

\* the parts of the document, each with the error it may throw
Part(threw, paragraphs) == [threw |-> threw, paragraphs |-> paragraphs]

NullList(byArea) == \E i \in 1..Len(byArea) : ~byArea[i].array
\* section 3: generateEvidenceSectionsFlat, flat being the unique evidence in
\* the order the sort left it
EvidenceListed(evidenceByArea) ==
  IF evidenceByArea.kind # "object" \/ Len(evidenceByArea.areas) = 0 THEN {<<>>}
  ELSE IF NullList(evidenceByArea.areas) THEN {<<>>}
  ELSE SortOutcomes(UniqueEvidence(Traverse(evidenceByArea.areas, 1, <<>>)))
EvidencePart(evidenceByArea, flat) ==
  IF evidenceByArea.kind # "object" \/ Len(evidenceByArea.areas) = 0
  THEN Part(FALSE, <<Placeholder("Detailed evidence will be documented as learning activities are recorded.")>>)
  ELSE IF NullList(evidenceByArea.areas) THEN Part(TRUE, <<>>)
  ELSE Part(FALSE, [j \in 1..Len(flat) |-> Paragraph("entry", Chars(flat[j].title))])

\* section 4: the four final texts
AssessmentPart(enhanced, parsed) ==
  Part(\E d \in 1..4 : AssessmentThrows(enhanced, parsed, Domains[d]),
       [d \in 1..4 |-> Paragraph("text", FinalAssessment(enhanced, parsed, Domains[d]).v)])

\* section 5, overview
FutureOverviewText(enhancedOverview, plans) ==
  OrElse(enhancedOverview, OrElse(Field(plans, "overview"), Str("")))
OverviewPart(enhancedOverview, plans) ==
  IF ~Truthy(enhancedOverview) /\ FieldThrows(plans) THEN Part(TRUE, <<>>)
  ELSE IF TrimThrows(FutureOverviewText(enhancedOverview, plans)) THEN Part(TRUE, <<>>)
  ELSE IF HasText(FutureOverviewText(enhancedOverview, plans))
       THEN Part(FALSE, <<Paragraph("text", FutureOverviewText(enhancedOverview, plans).v)>>)
  ELSE Part(FALSE, <<Placeholder("No future plans overview provided.")>>)

\* section 5.1: one bullet per line, or per goal that starts with "To "
GoalsList(chars) ==
  IF Includes(chars, <<"\n">>) THEN NonBlankPieces("lines", chars)
  ELSE NonBlankPieces("goals", chars)
GoalsPart(plans) ==
  IF FieldThrows(plans) \/ TrimThrows(Field(plans, "goals")) THEN Part(TRUE, <<>>)
  ELSE IF HasText(Field(plans, "goals"))
       THEN Part(FALSE, Bullets(GoalsList(Field(plans, "goals").v)))
  ELSE Part(FALSE, <<Placeholder("No learning goals specified.")>>)

\* section 5.2: bullets when the text splits in two or more, else the text
StrategiesList(chars) ==
  IF Includes(chars, <<"\n">>) THEN NonBlankPieces("lines", chars)
  ELSE NonBlankPieces("strategies", chars)
StrategiesPart(plans) ==
  IF FieldThrows(plans) \/ TrimThrows(Field(plans, "strategies")) THEN Part(TRUE, <<>>)
  ELSE IF HasText(Field(plans, "strategies"))
       THEN Part(FALSE,
                 IF Len(StrategiesList(Field(plans, "strategies").v)) > 1
                 THEN Bullets(StrategiesList(Field(plans, "strategies").v))
                 ELSE <<Paragraph("text", Field(plans, "strategies").v)>>)
  ELSE Part(FALSE, <<Placeholder("No strategies specified.")>>)

\* section 5.3: rendered only when there are planned resources
PlannedPart(plans) ==
  IF FieldThrows(plans) \/ TrimThrows(Field(plans, "plannedResources")) THEN Part(TRUE, <<>>)
  ELSE IF HasText(Field(plans, "plannedResources"))
       THEN Part(FALSE, <<Paragraph("heading", Chars("5.3 Planned Resources")),
                          Paragraph("text", Field(plans, "plannedResources").v)>>)
  ELSE Part(FALSE, <<>>)

AsLists(areas) ==
  [i \in 1..Len(areas) |->
     [area |-> areas[i].area, list |-> areas[i].items]]
\* section 6.1: the resources extracted from the evidence
UsedPart(evidenceByArea) ==
  LET extracted == IF evidenceByArea.kind # "object" THEN <<>>
                   ELSE ExtractResourcesFromEvidence(AsLists(evidenceByArea.areas))
  IN IF Len(extracted) > 0
     THEN Part(FALSE, [i \in 1..Len(extracted) |-> Paragraph("bullet", Chars(extracted[i]))])
     ELSE Part(FALSE, <<Placeholder("Resources will be documented as the learning program develops.")>>)

\* section 6.2: the planned resources, split at commas and newlines
PlannedNextPart(plans) ==
  IF HasText(Field(plans, "plannedResources"))
  THEN Part(FALSE, Bullets(NonBlankPieces("planned", Field(plans, "plannedResources").v)))
  ELSE Part(FALSE, <<Placeholder("Planned resources will be identified based on emerging learning interests and needs.")>>)

PartNames ==
  <<"evidence", "assessment", "overview", "goals", "strategies", "planned", "used", "plannedNext">>
Parts(in, flat) ==
  LET plans == ParseFuturePlans(WithDefault(in.futurePlans, JObj(<<>>)))
  IN [evidence |-> EvidencePart(in.evidenceByArea, flat),
      assessment |-> AssessmentPart(WithDefault(in.enhancedProgressAssessment, JObj(<<>>)),
                                    ParseProgressAssessment(
                                      WithDefault(in.progressAssessment, JObj(<<>>)))),
      overview |-> OverviewPart(WithDefault(in.enhancedFuturePlansOverview, JNull), plans),
      goals |-> GoalsPart(plans),
      strategies |-> StrategiesPart(plans),
      planned |-> PlannedPart(plans),
      used |-> UsedPart(in.evidenceByArea),
      plannedNext |-> PlannedNextPart(plans)]

\* generatePortfolio: the document, or the first error thrown on the way
Composed(parts) ==
  IF \E i \in 1..Len(PartNames) : parts[PartNames[i]].threw
  THEN [threw |-> TRUE,
        doc |-> [name \in {PartNames[i] : i \in 1..Len(PartNames)} |-> <<>>]]
  ELSE [threw |-> FALSE,
        doc |-> [name \in {PartNames[i] : i \in 1..Len(PartNames)} |-> parts[name].paragraphs]]

ProgressAssessments ==
  {JUndef, JNull, JObj(<<>>),
   JObj(<<Prop("cognitive", Str("Raw c")), Prop("social", Str("")), Prop("emotional", JNull)>>),
   JObj(<<Prop("cognitive", Str("Raw c")), Prop("social", Str("Raw s")),
          Prop("emotional", Str("Raw e")), Prop("physical", Str("Raw p"))>>),
   Str("{\"physical\":\"Raw p\"}"), Str("not json"), Str("null")}
EnhancedAssessments ==
  {JUndef, JObj(<<>>),
   JObj(<<Prop("cognitive", Str("Enhanced c")), Prop("physical", Str(""))>>),
   JObj(<<Prop("cognitive", Str("Enhanced c")), Prop("social", Str("Enhanced s")),
          Prop("emotional", Str("Enhanced e")), Prop("physical", Str("Enhanced p"))>>)}
FuturePlansChoices ==
  {JUndef, JNull, JObj(<<>>),
   JObj(<<Prop("overview", Str("Keep exploring.")), Prop("goals", Str("To read more. To swim")),
          Prop("strategies", Str("Short sessions, Breaks, movement")),
          Prop("plannedResources", Str("Library, museum"))>>),
   JObj(<<Prop("goals", Str("one\n\ntwo")), Prop("strategies", Str("Follow interests")),
          Prop("plannedResources", Str(","))>>),
   JObj(<<Prop("overview", Str("   ")), Prop("goals", Str(" "))>>),
   Str("Just text"), Str("{\"overview\":\"From text\"}"), Str(" \"goals\": \"To cook\" ")}
EnhancedOverviews == {JUndef, Str("Enhanced overview")}

ListedItem(i) ==
  [title |-> IF i % 2 = 1 THEN "Pool day" ELSE "glue gun",
   date |-> FormatDate(ValidDate(i, 0)),
   description |-> IF i % 2 = 1 THEN "" ELSE "hot"]
ListedItems(n) == [i \in 1..n |-> ListedItem(i)]
Grouping(kind, areas) == [kind |-> kind, areas |-> areas]
ComposerEvidence ==
  {Grouping("undefined", <<>>), Grouping("null", <<>>), Grouping("object", <<>>),
   Grouping("object", <<[area |-> "English", items |-> <<>>, array |-> FALSE]>>)}
  \cup {Grouping("object", <<[area |-> "English", items |-> ListedItems(n), array |-> TRUE]>>) : n \in 0..MaxListed}
  \cup {Grouping("object", <<[area |-> "English", items |-> <<>>, array |-> TRUE],
                             [area |-> "Mathematics", items |-> ListedItems(n), array |-> TRUE]>>) :
          n \in 0..MaxListed}

CoInit ==
  /\ cIn = <<>>
  /\ cOut = <<>>
  /\ cPc = "start"
  /\ CoRestIdle

\* portfolioData as handed to generatePortfolio; the fields not listed are
\* well formed
ReceiveComposerData ==
  /\ cPc = "start"
  /\ \E pa \in ProgressAssessments, epa \in EnhancedAssessments, fp \in FuturePlansChoices,
        efo \in EnhancedOverviews, ev \in ComposerEvidence :
       cIn' = [progressAssessment |-> pa, enhancedProgressAssessment |-> epa,
               futurePlans |-> fp, enhancedFuturePlansOverview |-> efo,
               evidenceByArea |-> ev]
  /\ cPc' = "input"
  /\ UNCHANGED <<cOut, coRest>>

\* generatePortfolio, sections 3 to 6
ComposeDocument ==
  /\ cPc = "input"
  /\ \E flat \in EvidenceListed(cIn.evidenceByArea) : cOut' = Composed(Parts(cIn, flat))
  /\ cPc' = "done"
  /\ UNCHANGED <<cIn, coRest>>

CoNext == ReceiveComposerData \/ ComposeDocument

SpecComposer == CoInit /\ [][CoNext]_vars

(***************************************************************************)
(* Claims about the composed document (checked under SpecComposer)         *)
(***************************************************************************)
\* a text that is present and not empty
Present(x) == x.t = "str" /\ Len(x.v) > 0
\* the parent's raw input: the field itself, or what its JSON text decodes to
RawInput ==
  IF cIn.progressAssessment.t = "str"
  THEN IF JsonParse(cIn.progressAssessment.v).ok
       THEN JsonParse(cIn.progressAssessment.v).v ELSE JObj(<<>>)
  ELSE cIn.progressAssessment
ExpectedAssessment(d) ==
  IF Present(Field(cIn.enhancedProgressAssessment, Domains[d]))
  THEN Field(cIn.enhancedProgressAssessment, Domains[d]).v
  ELSE IF Present(Field(RawInput, Domains[d])) THEN Field(RawInput, Domains[d]).v
  ELSE Chars("No assessment provided.")

\* C16: in the composed document the text of each of the four domains is the
\* enhanced value when there is one, else the parent's raw input when there is
\* one, else the placeholder sentence.
C16_EnhancedThenRawThenPlaceholder ==
  cPc = "done" =>
    /\ ~cOut.threw
    /\ \A d \in 1..4 : cOut.doc.assessment[d].text = ExpectedAssessment(d)

\* C16, the part that holds: whenever a document is composed the four texts
\* follow the order enhanced, raw, placeholder.
C16_OrderWhenComposed ==
  (cPc = "done" /\ ~cOut.threw) =>
    \A d \in 1..4 : cOut.doc.assessment[d].text = ExpectedAssessment(d)

HasKind(part, kinds) == \E i \in 1..Len(part) : part[i].kind \in kinds

\* C17: every part of the composed document that has no content holds a
\* placeholder paragraph: the evidence listing lists an entry or holds the
\* placeholder, and so do the overview, the goals, the strategies, the
\* resources used and the planned resources.
C17_PlaceholderInEveryEmptyPart ==
  cPc = "done" =>
    /\ ~cOut.threw
    /\ HasKind(cOut.doc.evidence, {"entry", "placeholder"})
    /\ HasKind(cOut.doc.overview, {"text", "placeholder"})
    /\ HasKind(cOut.doc.goals, {"bullet", "placeholder"})
    /\ HasKind(cOut.doc.strategies, {"bullet", "text", "placeholder"})
    /\ HasKind(cOut.doc.used, {"bullet", "placeholder"})
    /\ HasKind(cOut.doc.plannedNext, {"bullet", "placeholder"})

\* C17, among the documents composed: the evidence listing alone
C17_EvidencePlaceholderWhenComposed ==
  (cPc = "done" /\ ~cOut.threw) => HasKind(cOut.doc.evidence, {"entry", "placeholder"})

(***************************************************************************)
(* The enhancement stage of the api handler                                *)
(*                                                                         *)
(* The handler awaits its enhancement calls one after the other: a         *)
(* progress summary per learning area with evidence, the four assessment   *)
(* domains, then the future-plans overview.  Every call is one fetch in    *)
(* callOpenAI; the collaborator's answer is the environment's choice.      *)
(***************************************************************************)
MaxSummaryAreas == 2

SummaryAreaNames == <<"English", "Mathematics", "HSIE", "PDHPE">>
SummaryCounts == {0, 1, 2}
RawAssessment ==
  [cognitive |-> "Asks why about everything", social |-> "Plays well with cousins",
   emotional |-> "Names big feelings", physical |-> "Swims twice a week"]
RawOverviews == <<Str(""), Str("  "), Str("More projects next term")>>

\* an answer of the collaborator: the fetch settles, the status, the body
Answer(fetch, ok, json, data) == [fetch |-> fetch, ok |-> ok, json |-> json, data |-> data]
Choices(list) == JObj(<<Prop("choices", JArr(list))>>)
Message(m) == Choices(<<JObj(<<Prop("message", m)>>)>>)
Completion(content) == Message(JObj(<<Prop("content", content)>>))

\* network error, non-OK response, malformed or empty result
FailedAnswers ==
  << Answer("rejects", FALSE, "rejects", JUndef),
     Answer("resolves", FALSE, "resolves", JObj(<<>>)),
     Answer("resolves", TRUE, "rejects", JUndef),
     Answer("resolves", TRUE, "resolves", JNull),
     Answer("resolves", TRUE, "resolves", JObj(<<>>)),
     Answer("resolves", TRUE, "resolves", Choices(<<>>)),
     Answer("resolves", TRUE, "resolves", Choices(<<JObj(<<>>)>>)),
     Answer("resolves", TRUE, "resolves", Message(JObj(<<>>))),
     Answer("resolves", TRUE, "resolves", Completion(JNull)),
     Answer("resolves", TRUE, "resolves", Completion(Str(""))),
     Answer("resolves", TRUE, "resolves", Completion(Str(" \n"))),
     Answer("resolves", TRUE, "resolves", Completion(JNum(<<"5">>))) >>
\* a completion with text in it; the model's one carries surrounding white space
GoodAnswers ==
  << Answer("resolves", TRUE, "resolves", Completion(Str(" Is building confidence\n"))) >>

Thrown == [threw |-> TRUE, v |-> JUndef]
Value(x) == [threw |-> FALSE, v |-> x]

\* data.choices[0]?.message?.content?.trim() || null, outside the try block
CompletionText(data) ==
  IF data.t \in {"null", "undef"} THEN Thrown
  ELSE LET choices == Field(data, "choices") IN
    IF choices.t \in {"null", "undef"} THEN Thrown
    ELSE LET first == IF choices.t = "arr" /\ Len(choices.v) > 0 THEN choices.v[1] ELSE JUndef
             message == IF first.t \in {"null", "undef"} THEN JUndef ELSE Field(first, "message")
             content == IF message.t \in {"null", "undef"} THEN JUndef ELSE Field(message, "content")
         IN IF content.t \in {"null", "undef"} THEN Value(JNull)
            ELSE IF ~IsString(content) THEN Thrown
            ELSE Value(OrElse(JStr(Trim(content.v)), JNull))

\* the body of callOpenAI's try block
TryCallOpenAI(answer) ==
  IF answer.fetch # "resolves" THEN Thrown
  ELSE IF ~answer.ok THEN Value(JNull)
  ELSE IF answer.json # "resolves" THEN Thrown
  ELSE CompletionText(answer.data)

\* callOpenAI without its catch block
CallOpenAIUncaught(apiKey, answer) ==
  IF ~apiKey THEN Value(JNull) ELSE TryCallOpenAI(answer)

\* callOpenAI: null without a key, null for whatever the try block throws
CallOpenAI(apiKey, answer) ==
  IF ~apiKey THEN Value(JNull)
  ELSE IF TryCallOpenAI(answer).threw THEN Value(JNull)
  ELSE TryCallOpenAI(answer)

\* !parentInput || parentInput.trim() === ''
NothingToEnhance(text) == ~Truthy(text) \/ (IsString(text) /\ Blank(text.v))

\* enhanceParentAssessment: enhanced || parentInput
EnhanceParentAssessment(parentInput, enhanced) ==
  IF NothingToEnhance(parentInput) THEN parentInput ELSE OrElse(enhanced, parentInput)

\* enhanceFuturePlans(...).enhancedOverview
EnhanceFuturePlans(overview, enhanced) ==
  IF NothingToEnhance(overview) THEN JNull ELSE OrElse(enhanced, overview)

Step(kind, key) == [kind |-> kind, key |-> key]
\* the areas whose list is a non-empty array, in Object.entries order
SummarySteps(evidence) ==
  LET withEvidence == SelectSeq(evidence, LAMBDA e : e.count > 0)
  IN [i \in 1..Len(withEvidence) |-> Step("summary", withEvidence[i].area)]
\* if (parsedAssessment.cognitive) ... if (parsedAssessment.physical)
AssessmentSteps(assessment) ==
  LET given == SelectSeq(Domains, LAMBDA d : Truthy(Field(assessment, d)))
  IN [i \in 1..Len(given) |-> Step("assessment", given[i])]
\* if (parsedFuturePlans.overview)
OverviewSteps(plans) ==
  IF Truthy(Field(plans, "overview")) THEN <<Step("overview", "overview")>> ELSE <<>>
EnhancementSteps(req) ==
  IF req.apiKey
  THEN SummarySteps(req.evidence) \o AssessmentSteps(req.progressAssessment)
         \o OverviewSteps(req.futurePlans)
  ELSE <<>>

\* the text a step hands to the collaborator
StepInput(req, step) ==
  CASE step.kind = "assessment" -> Field(req.progressAssessment, step.key)
    [] step.kind = "overview" -> Field(req.futurePlans, "overview")
    [] OTHER -> Str(step.key)
\* a step that returns before it reaches callOpenAI
ReturnsEarly(req, step) == step.kind # "summary" /\ NothingToEnhance(StepInput(req, step))

NoEnhancements == [summaries |-> JObj(<<>>), enhanced |-> JObj(<<>>), overview |-> JNull]

\* what the handler keeps of a step's result
Keep(data, req, step, result) ==
  CASE step.kind = "summary" ->
         IF Truthy(result)
         THEN [data EXCEPT !.summaries = JObj(ObjSet(data.summaries.v, Chars(step.key), result))]
         ELSE data
    [] step.kind = "assessment" ->
         [data EXCEPT !.enhanced =
            JObj(ObjSet(data.enhanced.v, Chars(step.key),
                        EnhanceParentAssessment(StepInput(req, step), result)))]
    [] OTHER ->
         IF Truthy(EnhanceFuturePlans(StepInput(req, step), result))
         THEN [data EXCEPT !.overview = EnhanceFuturePlans(StepInput(req, step), result)]
         ELSE data

\* the count-based progress summary of generateLearningAreaOverviews
CountSummary(n) ==
  Str(ToString(n) \o " learning evidence " \o (IF n = 1 THEN "entry" ELSE "entries")
        \o " documented for this area during the reporting period.")
NoEvidenceSummary(area) ==
  Str("No formal evidence was documented for " \o area \o " during this reporting period.")
ProgressSummary(aiProgressSummaries, area, count) ==
  IF Truthy(Field(aiProgressSummaries, area)) THEN Field(aiProgressSummaries, area)
  ELSE IF count > 0 THEN CountSummary(count)
  ELSE NoEvidenceSummary(area)

\* the texts of the document that the enhancement stage can change
DocumentTexts(req, data) ==
  [summaries |-> [i \in 1..Len(req.evidence) |->
                    ProgressSummary(data.summaries, req.evidence[i].area, req.evidence[i].count)],
   assessment |-> [i \in 1..Len(Domains) |->
                    FinalAssessment(data.enhanced, req.progressAssessment, Domains[i])],
   overview |-> FutureOverviewText(data.overview, req.futurePlans)]

NoTexts == [summaries |-> <<>>, assessment |-> <<>>, overview |-> JUndef]
Response(status, texts) == [status |-> status, texts |-> texts]

AssessmentOf(given) ==
  JObj([i \in 1..Len(given) |-> Prop(given[i], Str(RawAssessment[given[i]]))])
DomainChoices == {SelectSeq(Domains, LAMBDA d : d \in ds) : ds \in SUBSET {"cognitive", "social", "emotional", "physical"}}
PlansOf(overview) ==
  IF Truthy(overview) THEN JObj(<<Prop("overview", overview)>>) ELSE JObj(<<>>)
EvidenceCounts ==
  UNION {[1..n -> SummaryCounts] : n \in 0..MaxSummaryAreas}

EnInit ==
  /\ hIn = <<>>
  /\ hCalls = <<>>
  /\ hFlight = FALSE
  /\ hLog = <<>>
  /\ hData = <<>>
  /\ hResp = <<>>
  /\ hPc = "start"
  /\ EnRestIdle

\* the request after the handler's parsing: evidence grouped, fields parsed
ReceiveEnhanceRequest ==
  /\ hPc = "start"
  /\ \E apiKey \in BOOLEAN, counts \in EvidenceCounts, given \in DomainChoices,
        o \in 1..Len(RawOverviews) :
       hIn' = [apiKey |-> apiKey,
               evidence |-> [i \in 1..Len(counts) |->
                              [area |-> SummaryAreaNames[i], count |-> counts[i]]],
               progressAssessment |-> AssessmentOf(given),
               futurePlans |-> PlansOf(RawOverviews[o])]
  /\ hPc' = "input"
  /\ UNCHANGED <<hCalls, hFlight, hLog, hData, hResp, enRest>>

\* if (OPENAI_API_KEY) { ... } else { skipping AI enhancements }
BeginEnhancements ==
  /\ hPc = "input"
  /\ hCalls' = EnhancementSteps(hIn)
  /\ hData' = NoEnhancements
  /\ hPc' = "calls"
  /\ UNCHANGED <<hIn, hFlight, hLog, hResp, enRest>>

\* a step whose text is blank returns without a call
ReturnEarly ==
  /\ hPc = "calls" /\ ~hFlight /\ Len(hCalls) > 0
  /\ ReturnsEarly(hIn, Head(hCalls))
  /\ hData' = Keep(hData, hIn, Head(hCalls), JNull)
  /\ hCalls' = Tail(hCalls)
  /\ UNCHANGED <<hIn, hFlight, hLog, hResp, hPc, enRest>>

\* callOpenAI starts its fetch and awaits the answer
IssueCall ==
  /\ hPc = "calls" /\ ~hFlight /\ Len(hCalls) > 0
  /\ ~ReturnsEarly(hIn, Head(hCalls))
  /\ hFlight' = TRUE
  /\ UNCHANGED <<hIn, hCalls, hLog, hData, hResp, hPc, enRest>>

\* the collaborator answers; what callOpenAI throws reaches the handler's catch
AnswerArrives(failed, answer) ==
  LET result == CallOpenAI(hIn.apiKey, answer)
      sent == IF failed THEN <<>>
              ELSE Field(Field(Field(answer.data, "choices").v[1], "message"), "content").v
  IN /\ hFlight' = FALSE
     /\ hLog' = Append(hLog, [step |-> Head(hCalls), failed |-> failed, sent |-> sent])
     /\ IF result.threw
        THEN /\ hResp' = Response(500, NoTexts)
             /\ hPc' = "done"
             /\ UNCHANGED <<hCalls, hData>>
        ELSE /\ hData' = Keep(hData, hIn, Head(hCalls), result.v)
             /\ hCalls' = Tail(hCalls)
             /\ UNCHANGED <<hResp, hPc>>
     /\ UNCHANGED <<hIn, enRest>>

CallReturns ==
  /\ hPc = "calls" /\ hFlight
  /\ \/ \E k \in 1..Len(FailedAnswers) : AnswerArrives(TRUE, FailedAnswers[k])
     \/ \E k \in 1..Len(GoodAnswers) : AnswerArrives(FALSE, GoodAnswers[k])

\* generatePortfolio, Packer.toBuffer, put and the 200 response
ComposeAndRespond ==
  /\ hPc = "calls" /\ ~hFlight /\ Len(hCalls) = 0
  /\ hResp' = Response(200, DocumentTexts(hIn, hData))
  /\ hPc' = "done"
  /\ UNCHANGED <<hIn, hCalls, hFlight, hLog, hData, enRest>>

EnNext ==
  \/ ReceiveEnhanceRequest
  \/ BeginEnhancements
  \/ ReturnEarly
  \/ IssueCall
  \/ CallReturns
  \/ ComposeAndRespond

SpecEnhance == EnInit /\ [][EnNext]_vars

\* the handler's own steps always run; nothing obliges the collaborator to answer
SpecEnhanceFair ==
  /\ SpecEnhance
  /\ WF_vars(ReceiveEnhanceRequest)
  /\ WF_vars(BeginEnhancements)
  /\ WF_vars(ReturnEarly)
  /\ WF_vars(IssueCall)
  /\ WF_vars(ComposeAndRespond)

(***************************************************************************)
(* Claims about the enhancement stage (checked under SpecEnhance and       *)
(* SpecEnhanceFair)                                                        *)
(***************************************************************************)
AreaIndex(area) == CHOOSE i \in 1..Len(hIn.evidence) : hIn.evidence[i].area = area
DomainIndex(d) == CHOOSE i \in 1..Len(Domains) : Domains[i] = d

\* the text of the document that a call was made for
TextFor(step) ==
  CASE step.kind = "summary" -> hResp.texts.summaries[AreaIndex(step.key)]
    [] step.kind = "assessment" -> hResp.texts.assessment[DomainIndex(step.key)]
    [] OTHER -> hResp.texts.overview

\* the text the document shows when nothing is enhanced
PreEnhancementText(step) ==
  CASE step.kind = "summary" -> CountSummary(hIn.evidence[AreaIndex(step.key)].count)
    [] step.kind = "assessment" -> Str(RawAssessment[step.key])
    [] OTHER -> Field(hIn.futurePlans, "overview")

FailedKinds == {hLog[i].step.kind : i \in {j \in 1..Len(hLog) : hLog[j].failed}}

\* C18: whatever way enhancement calls fail, the request is answered with a
\* document; the text of every failed call is the pre-enhancement text (raw
\* assessment, raw overview, count-based summary) and the text of every other
\* call is the collaborator's own answer to that call, trimmed.
C18_FailedCallFallsBackAlone ==
  hPc = "done" =>
    /\ hResp.status = 200
    /\ \A i \in 1..Len(hLog) :
         TextFor(hLog[i].step) = IF hLog[i].failed THEN PreEnhancementText(hLog[i].step)
                                 ELSE JStr(Trim(hLog[i].sent))

C18_Witness ==
  /\ hPc = "done"
  /\ hResp.status = 200
  /\ FailedKinds = {"summary", "assessment", "overview"}
  /\ \E i \in 1..Len(hLog) : ~hLog[i].failed /\ hLog[i].step.kind = "assessment"
  /\ \E i \in 1..Len(hLog) : ~hLog[i].failed /\ hLog[i].step.kind = "summary"

\* C19: every enhancement call is time-bounded, so a request whose
\* collaborator never answers is still answered in the end.
C19_EveryRequestAnswered == (hPc = "input") ~> (hPc = "done")

(***************************************************************************)
(* The attachments of one evidence entry (api handler)                     *)
(*                                                                         *)
(* An attachment is [form, mime, text, url]: form "null" for a null        *)
(* element of the list; mime the value of 'MIME type', text FALSE when it  *)
(* is not a string; url TRUE when one of the URL fields is set.  An image  *)
(* in the result is [attachment, buffer], attachment being the position of *)
(* the attachment it was fetched for.                                      *)
(***************************************************************************)
MaxAttachments == 4
MaxImagesPerEntry == 3

Attachment(form, mime, text, url) == [form |-> form, mime |-> mime, text |-> text, url |-> url]
Image == Attachment("object", "image/png", TRUE, TRUE)
AttachmentChoices ==
  { Image,
    Attachment("object", "image/png", TRUE, FALSE),
    Attachment("object", "application/pdf", TRUE, TRUE),
    Attachment("object", "", TRUE, TRUE),
    Attachment("object", "7", FALSE, TRUE),
    Attachment("null", "", TRUE, FALSE) }
AttachmentLists == UNION {[1..n -> AttachmentChoices] : n \in 0..MaxAttachments}

\* how the image host answers: the fetch settles, the status, the body
HostAnswer(fetch, ok, body) == [fetch |-> fetch, ok |-> ok, body |-> body]
FailedFetches ==
  { HostAnswer("rejects", FALSE, "none"), HostAnswer("aborted", FALSE, "none"),
    HostAnswer("resolves", FALSE, "none"), HostAnswer("resolves", TRUE, "rejects") }
GoodFetches == { HostAnswer("resolves", TRUE, "resolves") }

\* fetchImageAsBuffer: TRUE for a buffer, FALSE for null; the abort after ten
\* seconds rejects the fetch, and every rejection is caught
FetchImageAsBuffer(answer) ==
  IF answer.fetch # "resolves" THEN FALSE
  ELSE IF ~answer.ok THEN FALSE
  ELSE answer.body = "resolves"

\* attachments.slice(0, 3)
LimitedAttachments(attachments) ==
  SubSeq(attachments, 1, IF Len(attachments) < MaxImagesPerEntry THEN Len(attachments)
                         ELSE MaxImagesPerEntry)

\* mimeType.startsWith('image/')
StartsWithImage(mime) ==
  Len(Chars(mime)) >= 6 /\ SubSeq(Chars(mime), 1, 6) = Chars("image/")

\* the loop body throws into its own catch: a property read on null, or
\* startsWith on a value that is not a string
AttachmentThrows(att) == att.form = "null" \/ ~att.text
\* the iterations that reach fetchImageAsBuffer
ReachesFetch(att) == ~AttachmentThrows(att) /\ StartsWithImage(att.mime) /\ att.url

\* a failed image empties the list
DropAllOnFailure(processedImages, i, imageBuffer) ==
  IF imageBuffer THEN Append(processedImages, [attachment |-> i, buffer |-> imageBuffer])
  ELSE <<>>

\* if (imageBuffer) processedImages.push({...})
KeepImage(processedImages, i, imageBuffer) ==
  IF imageBuffer THEN Append(processedImages, [attachment |-> i, buffer |-> imageBuffer])
  ELSE processedImages

\* generateEvidenceSectionsFlat: an ImageRun for every attachment with a buffer
EmbeddedImages(attachments) ==
  LET withBuffer == SelectSeq(attachments, LAMBDA att : att.buffer)
  IN [k \in 1..Len(withBuffer) |-> withBuffer[k].attachment]

AtInit ==
  /\ aIn = <<>>
  /\ aIdx = 0
  /\ aAnswers = <<>>
  /\ aImages = <<>>
  /\ aOut = <<>>
  /\ aPc = "start"
  /\ AtRestIdle

\* entry.Attachments || entry.attachments || []
ReceiveEntryAttachments ==
  /\ aPc = "start"
  /\ \E array \in BOOLEAN, list \in AttachmentLists :
       /\ ~array => list = <<>>
       /\ aIn' = [array |-> array, list |-> list]
  /\ aPc' = "input"
  /\ UNCHANGED <<aIdx, aAnswers, aImages, aOut, atRest>>

\* the handler calls processAttachments for a non-empty array only
BeginAttachments ==
  /\ aPc = "input"
  /\ IF aIn.array /\ Len(aIn.list) > 0
     THEN aIdx' = 1 /\ aPc' = "loop"
     ELSE aIdx' = 0 /\ aPc' = "report"
  /\ UNCHANGED <<aIn, aAnswers, aImages, aOut, atRest>>

\* an iteration that ends before the fetch: continue, or the loop's catch
SkipAttachment ==
  /\ aPc = "loop" /\ aIdx <= Len(LimitedAttachments(aIn.list))
  /\ ~ReachesFetch(aIn.list[aIdx])
  /\ aIdx' = aIdx + 1
  /\ UNCHANGED <<aIn, aAnswers, aImages, aOut, aPc, atRest>>

\* an iteration that fetches the image
FetchImage ==
  /\ aPc = "loop" /\ aIdx <= Len(LimitedAttachments(aIn.list))
  /\ ReachesFetch(aIn.list[aIdx])
  /\ \E answer \in FailedFetches \cup GoodFetches :
       /\ aAnswers' = Append(aAnswers, [attachment |-> aIdx, succeeded |-> answer \in GoodFetches])
       /\ aImages' = KeepImage(aImages, aIdx, FetchImageAsBuffer(answer))
  /\ aIdx' = aIdx + 1
  /\ UNCHANGED <<aIn, aOut, aPc, atRest>>

\* return processedImages
EndAttachments ==
  /\ aPc = "loop" /\ aIdx > Len(LimitedAttachments(aIn.list))
  /\ aPc' = "report"
  /\ UNCHANGED <<aIn, aIdx, aAnswers, aImages, aOut, atRest>>

\* the entry is pushed to its areas with attachments: processedAttachments,
\* and the flat view embeds them
ReportEntry ==
  /\ aPc = "report"
  /\ aOut' = [reported |-> TRUE, attachments |-> aImages, embedded |-> EmbeddedImages(aImages)]
  /\ aPc' = "done"
  /\ UNCHANGED <<aIn, aIdx, aAnswers, aImages, atRest>>

AtNext ==
  \/ ReceiveEntryAttachments
  \/ BeginAttachments
  \/ SkipAttachment
  \/ FetchImage
  \/ EndAttachments
  \/ ReportEntry

SpecAttachments == AtInit /\ [][AtNext]_vars

(***************************************************************************)
(* Claims about attachments (checked under SpecAttachments)                *)
(***************************************************************************)
\* the attachments considered for the entry: images with a URL among the first three
Considered ==
  {i \in 1..Len(aIn.list) : i <= MaxImagesPerEntry /\ aIn.list[i] = Image}
Fetched(i) == \E k \in 1..Len(aAnswers) : aAnswers[k].attachment = i
Succeeded(i) == \E k \in 1..Len(aAnswers) : aAnswers[k].attachment = i /\ aAnswers[k].succeeded
EmbeddedSet == {aOut.embedded[k] : k \in 1..Len(aOut.embedded)}

C21_OptionalFieldsContained == cPc = "done" => ~cOut.threw

(***************************************************************************)
(* The area labels of one evidence entry (api handler, FIX 6)              *)
(*                                                                         *)
(* The declared areas arrive as a comma-joined string or as an array of    *)
(* strings; labels are sequences of characters.                            *)
(***************************************************************************)
MaxLabels == 2

LabelChoices ==
  {"English", " maths", "history", "geography", "0", "12", "12 ", " ", "", "\" 7\""}
Labels(form, items) == [form |-> form, items |-> items]

\* the labels joined by commas, as Make.com sends a multi-select field
RECURSIVE CommaJoined(_, _)
CommaJoined(labels, i) ==
  IF i > Len(labels) THEN <<>>
  ELSE (IF i = 1 THEN <<>> ELSE <<",">>) \o Chars(labels[i]) \o CommaJoined(labels, i + 1)

\* .replace(/"/g, '')
WithoutQuotes(chars) == SelectSeq(chars, LAMBDA c : c # "\"")

\* entry['Learning Areas'] || entry.learningAreas || [], then
\* areas.split(',').map(a => a.trim().replace(/"/g, '')) for a string
DeclaredAreas(learningAreas) ==
  IF learningAreas.form = "string"
  THEN IF Len(learningAreas.items) = 0 THEN <<>>
       ELSE LET pieces == SplitCommas(learningAreas.items, 1, <<>>, <<>>)
            IN [i \in 1..Len(pieces) |-> WithoutQuotes(Trim(pieces[i]))]
  ELSE learningAreas.items

\* /^\d+$/.test(String(area))
AllDigits(chars) == Len(chars) > 0 /\ \A i \in 1..Len(chars) : chars[i] \in Digits

\* if (!area) continue; if (area === '0' || area === '1' || /^\d+$/...) continue
SkippedLabel(area) == Len(area) = 0 \/ area = <<"0">> \/ area = <<"1">> \/ AllDigits(area)

\* normalizeAreaName: String(area).trim(), then the mapping of its lower case
NormalizeAreaNameOf(area) ==
  IF Len(area) = 0 THEN Chars("Other")
  ELSE LET areaStr == Trim(area)
           lowerArea == ToLower(areaStr)
       IN IF \E i \in 1..Len(Mappings) : Chars(Mappings[i][1]) = lowerArea
          THEN Chars(Mappings[CHOOSE i \in 1..Len(Mappings) : Chars(Mappings[i][1]) = lowerArea][2])
          ELSE areaStr

\* evidenceByArea[normalizedArea] is created on first use
RECURSIVE GroupedKeys(_, _, _)
GroupedKeys(areas, i, keys) ==
  IF i > Len(areas) THEN keys
  ELSE GroupedKeys(areas, i + 1,
         IF SkippedLabel(areas[i]) THEN keys
         ELSE ObjSet(keys, NormalizeAreaNameOf(areas[i]), JTrue))

\* evidenceByArea[normalizedArea].push({...}) for each label that is not
\* skipped: the length of the list under key once the entry is grouped
RECURSIVE PushedUnder(_, _, _)
PushedUnder(areas, i, key) ==
  IF i > Len(areas) THEN 0
  ELSE (IF ~SkippedLabel(areas[i]) /\ NormalizeAreaNameOf(areas[i]) = key THEN 1 ELSE 0)
       + PushedUnder(areas, i + 1, key)

\* generateLearningAreaOverviews: the keys that are not skipped as numeric or empty
OverviewAreas(keys) == SelectSeq(keys, LAMBDA k : ~SkippedLabel(k))

LaInit ==
  /\ lIn = <<>>
  /\ lOut = <<>>
  /\ lPc = "start"
  /\ LaRestIdle

ReceiveLearningAreas ==
  /\ lPc = "start"
  /\ \E n \in 0..MaxLabels : \E labels \in [1..n -> LabelChoices] :
       \/ lIn' = Labels("string", CommaJoined(labels, 1))
       \/ lIn' = Labels("array", [i \in 1..n |-> Chars(labels[i])])
  /\ lPc' = "input"
  /\ UNCHANGED <<lOut, laRest>>

\* the loop over the entry's areas, then the overviews of the document with
\* evidence.length of each area
GroupByLabel ==
  /\ lPc = "input"
  /\ LET grouped == GroupedKeys(DeclaredAreas(lIn), 1, <<>>)
         keys == [i \in 1..Len(grouped) |-> grouped[i].k]
         sections == OverviewAreas(keys)
     IN lOut' = [keys |-> keys, sections |-> sections,
                 counts |-> [i \in 1..Len(sections) |->
                               PushedUnder(DeclaredAreas(lIn), 1, sections[i])]]
  /\ lPc' = "done"
  /\ UNCHANGED <<lIn, laRest>>

LaNext == ReceiveLearningAreas \/ GroupByLabel

SpecLabels == LaInit /\ [][LaNext]_vars

(***************************************************************************)
(* Claims about area labels (checked under SpecLabels)                     *)
(***************************************************************************)
EmptyOrNumeric(key) == Len(key) = 0 \/ \A i \in 1..Len(key) : key[i] \in Digits

\* C22: after aggregation no key of the grouped view is empty or made of
\* digits only, whether the areas arrived as a comma-joined string or as an
\* array.
C22_NoEmptyOrNumericKey ==
  lPc = "done" => \A i \in 1..Len(lOut.keys) : ~EmptyOrNumeric(lOut.keys[i])

\* C22, the part that holds: no such key gets a section in the overviews
C22_NoEmptyOrNumericSection ==
  lPc = "done" => \A i \in 1..Len(lOut.sections) : ~EmptyOrNumeric(lOut.sections[i])

\* C30: the evidence count an area's overview reports is the number of
\* distinct entries that declare the area: the one entry grouped here counts
\* once under each of its areas, also when several of its labels normalize to
\* the same area (history and geography, both HSIE).
C30_EntryCountedOncePerArea ==
  lPc = "done" => \A i \in 1..Len(lOut.sections) : lOut.counts[i] = 1

(***************************************************************************)
(* More claims about the normalizers (checked under SpecNorm)              *)
(***************************************************************************)
\* n >= 2 object literals joined by commas, no brackets, as plain text
JoinedLiterals == nShape.kind = "joined" /\ nShape.n >= 2 /\ nShape.k = 1

\* C23: a string of n >= 2 comma-joined object literals without brackets
\* normalizes, in both handlers, to the list of exactly those n objects in
\* their original order.
C23_JoinedLiteralsDecoded ==
  /\ (Done(nServer) /\ JoinedLiterals) => JEq(nServer, RecList(nShape.n))
  /\ (Done(nApi) /\ JoinedLiterals) => JEq(nApi, RecList(nShape.n))

\* C23, the part that holds: the api handler's inline parsing wraps the text
\* in brackets and returns the n objects in order
C23_ApiDecodesJoinedLiterals ==
  (Done(nApi) /\ JoinedLiterals) => JEq(nApi, RecList(nShape.n))

\* C24: normalizing a normalized list changes nothing: for every input x,
\* parseMakeComData(parseMakeComData(x)) is parseMakeComData(x), the same
\* records in the same order, and likewise for ensureArray.
C24_NormalizeIdempotent ==
  /\ Done(nServer) => JEq(ParseMakeComData(nServer), nServer)
  /\ Done(nEnsure) => JEq(EnsureArray(nEnsure), nEnsure)

\* C24 witness: an object of records was normalized to the list of its records
C24_Witness ==
  /\ nShape.kind = "object" /\ nShape.n = MaxRecords
  /\ Done(nServer) /\ Done(nEnsure)
  /\ JEq(nServer, RecList(MaxRecords)) /\ JEq(nEnsure, RecList(MaxRecords))

(***************************************************************************)
(* The content sampler on its own (selectDiverseEvidence): one call with   *)
(* an evidenceByArea object and a maxTotal, the object it returns, and the *)
(* caller's object after the call.                                         *)
(***************************************************************************)
MaxSampleAreas == 7

SampleAreaNames ==
  <<"English", "Mathematics", "Science and Technology", "HSIE", "Creative Arts",
    "PDHPE", "Languages", "Other", "Life Skills", "Excursions">>
SampleSizes == {0, 2, 6}
\* the maxTotal of a call: the 30 generateEvidenceSections passes, and smaller
GlobalMaxima == {3, 12, MaxTotal}

\* an area of size items, their engagement tiers in rotation
SampleArea(a, size) ==
  [area |-> SampleAreaNames[a],
   list |-> [i \in 1..size |-> EvidenceOf(a, i, [size |-> size, rotate |-> TRUE, codeAt |-> 0])]]

SaInit ==
  /\ pIn = <<>>
  /\ pOut = <<>>
  /\ pPc = "start"
  /\ SaRestIdle

\* the arguments of a call
ReceiveSample ==
  /\ pPc = "start"
  /\ \E k \in 1..MaxSampleAreas, maxTotal \in GlobalMaxima :
       \E size \in [1..k -> SampleSizes] :
         pIn' = [evidenceByArea |-> [a \in 1..k |-> SampleArea(a, size[a])],
                 maxTotal |-> maxTotal]
  /\ pPc' = "input"
  /\ UNCHANGED <<pOut, saRest>>

\* selectDiverseEvidence(evidenceByArea, maxTotal): the object returned, and
\* the caller's lists as evidenceList.sort leaves them
Sample ==
  /\ pPc = "input"
  /\ pOut' = SelectDiverseEvidence(pIn.evidenceByArea, pIn.maxTotal)
  /\ pIn' = [pIn EXCEPT !.evidenceByArea = SortedInPlace(pIn.evidenceByArea, pIn.maxTotal)]
  /\ pPc' = "done"
  /\ UNCHANGED saRest

SaNext == ReceiveSample \/ Sample

SpecSampler == SaInit /\ [][SaNext]_vars

(***************************************************************************)
(* Claims about the content sampler (checked under SpecSampler)            *)
(***************************************************************************)
\* the entries of a list, as a set
EntriesOf(list) == {list[i] : i \in 1..Len(list)}

\* C25: whatever the number of areas and whatever maxTotal, the object the
\* sampler returns holds at most maxTotal entries over all its areas.
C25_TotalAtMostGlobalMax ==
  pPc = "done" => FlatLength(pOut, 1) <= pIn.maxTotal

\* C27: when the evidence exceeds maxTotal, each area of the returned object
\* holds at most 5 entries, all of them entries of that area's input list, and
\* no entry of the area that was left out has a strictly higher engagement
\* tier than one that was kept.
C27_TopFiveByTierPerArea ==
  (pPc = "done" /\ FlatLength(pIn.evidenceByArea, 1) > pIn.maxTotal) =>
    \A i \in 1..Len(pOut) :
      /\ Len(pOut[i].list) <= 5
      /\ HasArea(pIn.evidenceByArea, pOut[i].area)
      /\ EntriesOf(pOut[i].list) \subseteq EntriesOf(ListOf(pIn.evidenceByArea, pOut[i].area))
      /\ Cardinality(EntriesOf(pOut[i].list)) = Len(pOut[i].list)
      /\ \A kept \in EntriesOf(pOut[i].list) :
           \A left \in EntriesOf(ListOf(pIn.evidenceByArea, pOut[i].area)) \ EntriesOf(pOut[i].list) :
             EngagementScore(left) <= EngagementScore(kept)

\* C27 witness: the evidence exceeded the default maxTotal, and an area of six
\* entries came back with five, its 'Low' entry left out and an unknown tier
\* and a 'Very High' one kept
C27_Witness ==
  /\ pPc = "done"
  /\ pIn.maxTotal = MaxTotal
  /\ FlatLength(pIn.evidenceByArea, 1) > MaxTotal
  /\ \E i \in 1..Len(pOut) :
       /\ Len(pOut[i].list) = 5
       /\ Len(ListOf(pIn.evidenceByArea, pOut[i].area)) = 6
       /\ pOut[i].list[1].engagement = "Very High"
       /\ \E kept \in EntriesOf(pOut[i].list) : kept.engagement = "Unsure"
       /\ \E left \in EntriesOf(ListOf(pIn.evidenceByArea, pOut[i].area)) \ EntriesOf(pOut[i].list) :
            left.engagement = "Low"

\* C29: a call of the sampler leaves the caller's object as it was: the same
\* areas, each with the same entries in the same order, whether or not the
\* evidence exceeds maxTotal.
C29_InputNotModified ==
  [][pPc = "input" => pIn'.evidenceByArea = pIn.evidenceByArea]_vars

(***************************************************************************)
(* The learning goals of section 5.1 on their own: the goals text of the   *)
(* future plans and the paragraphs generatePortfolio makes of it.  A text  *)
(* is a run of words, full stops, spaces and newlines.                     *)
(***************************************************************************)
MaxGoalTokens == 5

GoalTokens == {<<"T", "o">>, <<"t", "o">>, <<"g", "o">>, <<".">>, <<" ">>, <<"\n">>}

RECURSIVE GoalText(_, _)
GoalText(tokens, i) ==
  IF i > Len(tokens) THEN <<>> ELSE tokens[i] \o GoalText(tokens, i + 1)

GoInit ==
  /\ gIn = <<>>
  /\ gOut = <<>>
  /\ gPc = "start"
  /\ GoRestIdle

\* futurePlans.goals of a request
ReceiveGoals ==
  /\ gPc = "start"
  /\ \E n \in 1..MaxGoalTokens :
       \E tokens \in [1..n -> GoalTokens] : gIn' = GoalText(tokens, 1)
  /\ gPc' = "input"
  /\ UNCHANGED <<gOut, goRest>>

\* generatePortfolio, section 5.1 Learning Goals
RenderGoals ==
  /\ gPc = "input"
  /\ gOut' = GoalsPart(JObj(<<Prop("goals", JStr(gIn))>>)).paragraphs
  /\ gPc' = "done"
  /\ UNCHANGED <<gIn, goRest>>

GoNext == ReceiveGoals \/ RenderGoals

SpecGoals == GoInit /\ [][GoNext]_vars

(***************************************************************************)
(* Claims about the learning goals (checked under SpecGoals)               *)
(***************************************************************************)
\* the lines of the goals text that are not blank, by the positions of their
\* first and last character
GoalLines ==
  {w \in (1..Len(gIn)) \X (1..Len(gIn)) :
     /\ w[1] <= w[2]
     /\ \A i \in w[1]..w[2] : gIn[i] # "\n"
     /\ w[1] = 1 \/ gIn[w[1] - 1] = "\n"
     /\ w[2] = Len(gIn) \/ gIn[w[2] + 1] = "\n"
     /\ ~Blank(SubSeq(gIn, w[1], w[2]))}
GoalBullets == SelectSeq(gOut, LAMBDA paragraph : paragraph.kind = "bullet")
StartsWithTo(chars) == Len(chars) >= 2 /\ chars[1] = "T" /\ chars[2] = "o"

\* C28: goals text with a newline gives one bullet for each line that is not
\* blank; goals text without a newline is split only in front of a capitalised
\* sentence start, so that every bullet after the first begins with "To" and
\* no sentence is divided; goals text that is not blank gives a bullet.
C28_GoalsSplitByLineOrSentence ==
  (gPc = "done" /\ ~Blank(gIn)) =>
    /\ Len(GoalBullets) >= 1
    /\ Includes(gIn, <<"\n">>) =>
         /\ Len(GoalBullets) = Cardinality(GoalLines)
         /\ \A k \in 1..Len(GoalBullets) :
              \E w \in GoalLines :
                /\ GoalBullets[k].text = Trim(SubSeq(gIn, w[1], w[2]))
                /\ Cardinality({v \in GoalLines : v[1] < w[1]}) = k - 1
    /\ ~Includes(gIn, <<"\n">>) =>
         \A k \in 2..Len(GoalBullets) : StartsWithTo(GoalBullets[k].text)

\* the parts of C28 the code keeps: a bullet for every line that is not
\* blank, and at least one bullet for goals text that is not blank
C28_LinesAndAtLeastOne ==
  (gPc = "done" /\ ~Blank(gIn)) =>
    /\ Len(GoalBullets) >= 1
    /\ Includes(gIn, <<"\n">>) => Len(GoalBullets) = Cardinality(GoalLines)
====
